---------------------------- MODULE Spec2Model ----------------------------
(***************************************************************************)
(* Model of the GD32 smart test selector                                   *)
(* (boards/gd/scripts/gd32_smart_test_selector.py): the peripheral matrix  *)
(* held by PeripheralMatrixLoader, the plan generation operations of       *)
(* TestPlanGenerator, the substring inference of required peripherals and  *)
(* the summary / export of a plan; and of the local build runner           *)
(* (boards/gd/scripts/gd32_local_tester.py): the build matrix, the builds  *)
(* in sequential and in thread-pool mode, one build, the report and the    *)
(* exit code.                                                              *)
(*                                                                         *)
(* Python values are represented as follows.                               *)
(*   str               a TLA+ string (Len, SubSeq and \o act on strings)   *)
(*   list              a sequence                                          *)
(*   dict              a function on its keys plus, where the iteration    *)
(*                     order matters, the sequence of keys in insertion    *)
(*                     order (Python dicts iterate in insertion order)     *)
(*   test_suites       a sequence of [category, tests] items in insertion  *)
(*                     order, categories pairwise different                *)
(*   a group dict      [keys, tests, boards]: keys is the set of keys      *)
(*                     present, so that .get(key, default) is modelled     *)
(*   group 'boards'    [is_str, str, list]: a YAML scalar or a YAML list   *)
(*   Optional[list]    [none, list]                                        *)
(***************************************************************************)
EXTENDS Integers, Sequences, FiniteSets, TLC

VARIABLES
    boards,        \* PeripheralMatrixLoader.boards: name -> BoardConfig
    board_keys,    \* insertion order of the keys of boards
    test_groups,   \* PeripheralMatrixLoader.test_groups: name -> group dict
    call,          \* the last operation called, with its arguments
    test_plans,    \* the plan returned by the last generation operation
    peripherals,   \* the list returned by the last _infer_required_peripherals
    printed,       \* the counts print_summary last wrote to stdout
    data,          \* the document export_to_json last wrote to output_file
    gd32_boards,   \* main: the boards discover_gd32_boards returned
    testcases,     \* main: the test cases left after discovery and tag filter
    args,          \* main: the parsed command line [platforms, jobs, timeout]
    pc,            \* main: the position of the main thread
    build_tasks,   \* main: the build matrix, a list of [board, tc]
    pending,       \* the executor's queue: submitted tasks no worker took yet
    taken,         \* the tasks a worker thread took off the queue and has
                   \* not yet called build_worker for
    running,       \* the tasks a worker thread is building
    completed,     \* the futures that are done and not yet yielded to main
    results,       \* main: the results list
    attempts,      \* how often west_build was called for each task
    exit_code,     \* the exit status of the process, <<>> until it ends
    report,        \* the JSON report main wrote, <<>> until it is written
    proc           \* west_build alone: what subprocess.run does

config == <<boards, board_keys, test_groups>>

selector == <<config, call, test_plans, peripherals, printed, data>>

runner == <<gd32_boards, testcases, args, pc, build_tasks, pending, taken, running,
            completed, results, attempts, exit_code, report, proc>>

vars == <<selector, runner>>

-----------------------------------------------------------------------------
(* Bounds of the model.                                                    *)

\* largest number of boards declared in the configuration
MaxBoards == 2
\* longest board filter passed to generate_for_all_boards
MaxFilterLen == 2
\* largest number of path tokens concatenated into an inferred test path
MaxPathTokens == 2
\* largest number of boards discover_gd32_boards finds
MaxDiscovered == 2
\* largest number of test cases a build matrix is generated for
MaxTestCases == 2
\* largest -j/--jobs argument
MaxJobs == 2

-----------------------------------------------------------------------------
(* Strings.                                                                *)

\* Characters. A string of this module holds the ASCII characters except
\* the grave accent and, of the others up to U+FFFF, those whose code point
\* ends in a byte of 0x80 to 0xFF (U+0080-U+00FF, U+0180-U+01FF, ...,
\* U+FF80-U+FFFF); it cannot hold the rest, U+0130, U+0131 and U+212A among
\* them. The tables below are those of Python 3.11 (Unicode 14.0) for the
\* characters it can hold.

\* A character is written as the string of that one character, and a
\* character a string cannot hold as the string of its name, "U+0253" for
\* U+0253; a text is the sequence of its characters.

\* the characters of a string
Chars(s) == [i \in 1..Len(s) |-> SubSeq(s, i, i)]

\* the characters str.lower() changes, and, at the same position of
\* LowerChars, the character it changes each of them to
UpperChars ==
    "ABCDEFGHIJKLMNOPQRSTUVWXYZÀÁÂÃÄÅÆÇÈÉÊËÌÍÎÏÐÑÒÓÔÕÖØÙÚÛÜÝÞ"
    \o "ƁƂƄƆƇƉƊƋƎƏƐƑƓƔƖƗƘƜƝƟƠƢƤƦƧƩƬƮƯƱƲƳƵƷƸƼǄǅǇǈǊǋǍǏǑǓǕǗǙǛǞǠǢǤǦǨ"
    \o "ǪǬǮǱǲǴǶǷǸǺǼǾΆΈΉΊΌΎΏΑΒΓΔΕΖΗΘΙΚΛΜΝΞΟΠΡΣΤΥΦΧΨΩΪΫϏϘϚϜϞϠϢϤϦϨϪ"
    \o "ϬϮϴϷϹϺϽϾϿҀҊҌҎҐҒҔҖҘҚҜҞҠҢҤҦҨҪҬҮҰҲҴҶҸҺҼҾӀӁӃӅӇӉӋӍӐӒӔӖӘӚӜӞӠӢӤ"
    \o "ӦӨӪӬӮӰӲӴӶӸӺӼӾႠႡႢႣႤႥႦႧႨႩႪႫႬႭႮႯႰႱႲႳႴႵႶႷႸႹႺႻႼႽႾႿჀჁჂჃჄჅჇჍᎠᎡᎢ"
    \o "ᎣᎤᎥᎦᎧᎨᎩᎪᎫᎬᎭᎮᎯᎰᎱᎲᎳᎴᎵᎶᎷᎸᎹᎺᎻᎼᎽᎾᎿᏀᏁᏂᏃᏄᏅᏆᏇᏈᏉᏊᏋᏌᏍᏎᏏᏐᏑᏒᏓᏔᏕᏖᏗᏘᏙᏚ"
    \o "ᏛᏜᏝᏞᏟᏠᏡᏢᏣᏤᏥᏦᏧᏨᏩᏪᏫᏬᏭᏮᏯᏰᏱᏲᏳᏴᏵᲐᲑᲒᲓᲔᲕᲖᲗᲘᲙᲚᲛᲜᲝᲞᲟᲠᲡᲢᲣᲤᲥᲦᲧᲨᲩᲪᲫᲬ"
    \o "ᲭᲮᲯᲰᲱᲲᲳᲴᲵᲶᲷᲸᲹᲺᲽᲾᲿẀẂẄẆẈẊẌẎẐẒẔẞẠẢẤẦẨẪẬẮẰẲẴẶẸẺẼẾỀỂỄỆỈỊỌỎỐỒỔ"
    \o "ỖỘỚỜỞỠỢỤỦỨỪỬỮỰỲỴỶỸỺỼỾᾈᾉᾊᾋᾌᾍᾎᾏᾘᾙᾚᾛᾜᾝᾞᾟᾨᾩᾪᾫᾬᾭᾮᾯᾸᾹᾺΆᾼῈΈῊΉῌῘ"
    \o "ῙῚΊῨῩῪΎῬῸΌῺΏῼↃⒶⒷⒸⒹⒺⒻⒼⒽⒾⒿⓀⓁⓂⓃⓄⓅⓆⓇⓈⓉⓊⓋⓌⓍⓎⓏⲀⲂⲄⲆⲈⲊⲌⲎⲐⲒⲔⲖⲘⲚⲜⲞ"
    \o "ⲠⲢⲤⲦⲨⲪⲬⲮⲰⲲⲴⲶⲸⲺⲼⲾⳀⳂⳄⳆⳈⳊⳌⳎⳐⳒⳔⳖⳘⳚⳜⳞⳠⳢⳫⳭⳲꚀꚂꚄꚆꚈꚊꚌꚎꚐꚒꚔꚖꚘꚚꞀꞂꞄꞆꞋ"
    \o "ꞍꞐꞒꞖꞘꞚꞜꞞꞠꞢꞤꞦꞨꞪꞫꞬꞭꞮꞰꞱꞲꞳꞴꞶꞸꞺꞼꞾꟀꟂꟄꟅꟆꟇꟉꟐꟖꟘꟵ"

LowerChars ==
    <<"a", "b", "c", "d", "e", "f", "g", "h", "i", "j", "k", "l", "m", "n",
      "o", "p", "q", "r", "s", "t", "u", "v", "w", "x", "y", "z", "à", "á",
      "â", "ã", "ä", "å", "æ", "ç", "è", "é", "ê", "ë", "ì", "í", "î", "ï",
      "ð", "ñ", "ò", "ó", "ô", "õ", "ö", "ø", "ù", "ú", "û", "ü", "ý", "þ",
      "U+0253", "ƃ", "ƅ", "U+0254", "ƈ", "U+0256", "U+0257", "ƌ", "ǝ",
      "U+0259", "U+025B", "ƒ", "U+0260", "U+0263", "U+0269", "U+0268", "ƙ",
      "U+026F", "U+0272", "U+0275", "ơ", "ƣ", "ƥ", "ʀ", "ƨ", "ʃ", "ƭ", "ʈ",
      "ư", "ʊ", "ʋ", "ƴ", "ƶ", "ʒ", "ƹ", "ƽ", "ǆ", "ǆ", "ǉ", "ǉ", "ǌ", "ǌ",
      "ǎ", "ǐ", "ǒ", "ǔ", "ǖ", "ǘ", "ǚ", "ǜ", "ǟ", "ǡ", "ǣ", "ǥ", "ǧ", "ǩ",
      "ǫ", "ǭ", "ǯ", "ǳ", "ǳ", "ǵ", "ƕ", "ƿ", "ǹ", "ǻ", "ǽ", "ǿ", "ά", "έ",
      "ή", "ί", "ό", "ύ", "ώ", "α", "β", "γ", "δ", "ε", "ζ", "η", "θ", "ι",
      "κ", "λ", "μ", "ν", "ξ", "ο", "π", "ρ", "σ", "τ", "υ", "φ", "χ", "ψ",
      "ω", "ϊ", "ϋ", "ϗ", "ϙ", "ϛ", "ϝ", "ϟ", "ϡ", "ϣ", "ϥ", "ϧ", "ϩ", "ϫ",
      "ϭ", "ϯ", "θ", "ϸ", "ϲ", "ϻ", "U+037B", "U+037C", "U+037D", "ҁ", "ҋ",
      "ҍ", "ҏ", "ґ", "ғ", "ҕ", "җ", "ҙ", "қ", "ҝ", "ҟ", "ҡ", "ң", "ҥ", "ҧ",
      "ҩ", "ҫ", "ҭ", "ү", "ұ", "ҳ", "ҵ", "ҷ", "ҹ", "һ", "ҽ", "ҿ", "ӏ", "ӂ",
      "ӄ", "ӆ", "ӈ", "ӊ", "ӌ", "ӎ", "ӑ", "ӓ", "ӕ", "ӗ", "ә", "ӛ", "ӝ", "ӟ",
      "ӡ", "ӣ", "ӥ", "ӧ", "ө", "ӫ", "ӭ", "ӯ", "ӱ", "ӳ", "ӵ", "ӷ", "ӹ", "ӻ",
      "ӽ", "ӿ", "U+2D00", "U+2D01", "U+2D02", "U+2D03", "U+2D04", "U+2D05",
      "U+2D06", "U+2D07", "U+2D08", "U+2D09", "U+2D0A", "U+2D0B", "U+2D0C",
      "U+2D0D", "U+2D0E", "U+2D0F", "U+2D10", "U+2D11", "U+2D12", "U+2D13",
      "U+2D14", "U+2D15", "U+2D16", "U+2D17", "U+2D18", "U+2D19", "U+2D1A",
      "U+2D1B", "U+2D1C", "U+2D1D", "U+2D1E", "U+2D1F", "U+2D20", "U+2D21",
      "U+2D22", "U+2D23", "U+2D24", "U+2D25", "U+2D27", "U+2D2D", "U+AB70",
      "U+AB71", "U+AB72", "U+AB73", "U+AB74", "U+AB75", "U+AB76", "U+AB77",
      "U+AB78", "U+AB79", "U+AB7A", "U+AB7B", "U+AB7C", "U+AB7D", "U+AB7E",
      "U+AB7F", "ꮀ", "ꮁ", "ꮂ", "ꮃ", "ꮄ", "ꮅ", "ꮆ", "ꮇ", "ꮈ", "ꮉ", "ꮊ", "ꮋ",
      "ꮌ", "ꮍ", "ꮎ", "ꮏ", "ꮐ", "ꮑ", "ꮒ", "ꮓ", "ꮔ", "ꮕ", "ꮖ", "ꮗ", "ꮘ", "ꮙ",
      "ꮚ", "ꮛ", "ꮜ", "ꮝ", "ꮞ", "ꮟ", "ꮠ", "ꮡ", "ꮢ", "ꮣ", "ꮤ", "ꮥ", "ꮦ", "ꮧ",
      "ꮨ", "ꮩ", "ꮪ", "ꮫ", "ꮬ", "ꮭ", "ꮮ", "ꮯ", "ꮰ", "ꮱ", "ꮲ", "ꮳ", "ꮴ", "ꮵ",
      "ꮶ", "ꮷ", "ꮸ", "ꮹ", "ꮺ", "ꮻ", "ꮼ", "ꮽ", "ꮾ", "ꮿ", "ᏸ", "ᏹ", "ᏺ", "ᏻ",
      "ᏼ", "ᏽ", "ა", "ბ", "გ", "დ", "ე", "ვ", "ზ", "თ", "ი", "კ", "ლ", "მ",
      "ნ", "ო", "პ", "ჟ", "რ", "ს", "ტ", "უ", "ფ", "ქ", "ღ", "ყ", "შ", "ჩ",
      "ც", "ძ", "წ", "ჭ", "ხ", "ჯ", "ჰ", "ჱ", "ჲ", "ჳ", "ჴ", "ჵ", "ჶ", "ჷ",
      "ჸ", "ჹ", "ჺ", "ჽ", "ჾ", "ჿ", "ẁ", "ẃ", "ẅ", "ẇ", "ẉ", "ẋ", "ẍ", "ẏ",
      "ẑ", "ẓ", "ẕ", "ß", "ạ", "ả", "ấ", "ầ", "ẩ", "ẫ", "ậ", "ắ", "ằ", "ẳ",
      "ẵ", "ặ", "ẹ", "ẻ", "ẽ", "ế", "ề", "ể", "ễ", "ệ", "ỉ", "ị", "ọ", "ỏ",
      "ố", "ồ", "ổ", "ỗ", "ộ", "ớ", "ờ", "ở", "ỡ", "ợ", "ụ", "ủ", "ứ", "ừ",
      "ử", "ữ", "ự", "ỳ", "ỵ", "ỷ", "ỹ", "ỻ", "ỽ", "ỿ", "ᾀ", "ᾁ", "ᾂ", "ᾃ",
      "ᾄ", "ᾅ", "ᾆ", "ᾇ", "ᾐ", "ᾑ", "ᾒ", "ᾓ", "ᾔ", "ᾕ", "ᾖ", "ᾗ", "ᾠ", "ᾡ",
      "ᾢ", "ᾣ", "ᾤ", "ᾥ", "ᾦ", "ᾧ", "ᾰ", "ᾱ", "U+1F70", "U+1F71", "ᾳ",
      "U+1F72", "U+1F73", "U+1F74", "U+1F75", "ῃ", "ῐ", "ῑ", "U+1F76",
      "U+1F77", "ῠ", "ῡ", "U+1F7A", "U+1F7B", "ῥ", "U+1F78", "U+1F79",
      "U+1F7C", "U+1F7D", "ῳ", "ↄ", "ⓐ", "ⓑ", "ⓒ", "ⓓ", "ⓔ", "ⓕ", "ⓖ", "ⓗ",
      "ⓘ", "ⓙ", "ⓚ", "ⓛ", "ⓜ", "ⓝ", "ⓞ", "ⓟ", "ⓠ", "ⓡ", "ⓢ", "ⓣ", "ⓤ", "ⓥ",
      "ⓦ", "ⓧ", "ⓨ", "ⓩ", "ⲁ", "ⲃ", "ⲅ", "ⲇ", "ⲉ", "ⲋ", "ⲍ", "ⲏ", "ⲑ", "ⲓ",
      "ⲕ", "ⲗ", "ⲙ", "ⲛ", "ⲝ", "ⲟ", "ⲡ", "ⲣ", "ⲥ", "ⲧ", "ⲩ", "ⲫ", "ⲭ", "ⲯ",
      "ⲱ", "ⲳ", "ⲵ", "ⲷ", "ⲹ", "ⲻ", "ⲽ", "ⲿ", "ⳁ", "ⳃ", "ⳅ", "ⳇ", "ⳉ", "ⳋ",
      "ⳍ", "ⳏ", "ⳑ", "ⳓ", "ⳕ", "ⳗ", "ⳙ", "ⳛ", "ⳝ", "ⳟ", "ⳡ", "ⳣ", "ⳬ", "ⳮ",
      "ⳳ", "ꚁ", "ꚃ", "ꚅ", "ꚇ", "ꚉ", "ꚋ", "ꚍ", "ꚏ", "ꚑ", "ꚓ", "ꚕ", "ꚗ", "ꚙ",
      "ꚛ", "ꞁ", "ꞃ", "ꞅ", "ꞇ", "ꞌ", "U+0265", "ꞑ", "ꞓ", "ꞗ", "ꞙ", "ꞛ", "ꞝ",
      "ꞟ", "ꞡ", "ꞣ", "ꞥ", "ꞧ", "ꞩ", "U+0266", "U+025C", "U+0261", "U+026C",
      "U+026A", "ʞ", "ʇ", "ʝ", "U+AB53", "ꞵ", "ꞷ", "ꞹ", "ꞻ", "ꞽ", "ꞿ", "ꟁ",
      "ꟃ", "ꞔ", "ʂ", "ᶎ", "ꟈ", "ꟊ", "ꟑ", "ꟗ", "ꟙ", "ꟶ">>

\* str.lower() on one character
LowerMap ==
    [c \in {SubSeq(UpperChars, i, i) : i \in 1..Len(UpperChars)} |->
        LET i == CHOOSE j \in 1..Len(UpperChars) : SubSeq(UpperChars, j, j) = c
        IN  LowerChars[i]]

LowerChar(c) == IF c \in DOMAIN LowerMap THEN LowerMap[c] ELSE c

\* the cased characters (letters that have a case) that are not
\* case-ignorable
CasedChars ==
    "ABCDEFGHIJKLMNOPQRSTUVWXYZabcdefghijklmnopqrstuvwxyzªµºÀ"
    \o "ÁÂÃÄÅÆÇÈÉÊËÌÍÎÏÐÑÒÓÔÕÖØÙÚÛÜÝÞßàáâãäåæçèéêëìíîïðñòóôõöøùú"
    \o "ûüýþÿƀƁƂƃƄƅƆƇƈƉƊƋƌƍƎƏƐƑƒƓƔƕƖƗƘƙƚƛƜƝƞƟƠơƢƣƤƥƦƧƨƩƪƫƬƭƮƯưƱƲ"
    \o "ƳƴƵƶƷƸƹƺƼƽƾƿǄǅǆǇǈǉǊǋǌǍǎǏǐǑǒǓǔǕǖǗǘǙǚǛǜǝǞǟǠǡǢǣǤǥǦǧǨǩǪǫǬǭǮǯ"
    \o "ǰǱǲǳǴǵǶǷǸǹǺǻǼǽǾǿʀʁʂʃʄʅʆʇʈʉʊʋʌʍʎʏʐʑʒʓʕʖʗʘʙʚʛʜʝʞʟʠʡʢʣʤʥʦʧʨ"
    \o "ʩʪʫʬʭʮʯΆΈΉΊΌΎΏΐΑΒΓΔΕΖΗΘΙΚΛΜΝΞΟΠΡΣΤΥΦΧΨΩΪΫάέήίΰαβγδεζηθικ"
    \o "λμνξοπρςστυφχψωϊϋόύώϏϐϑϒϓϔϕϖϗϘϙϚϛϜϝϞϟϠϡϢϣϤϥϦϧϨϩϪϫϬϭϮϯϰϱϲ"
    \o "ϳϴϵϷϸϹϺϻϼϽϾϿҀҁҊҋҌҍҎҏҐґҒғҔҕҖҗҘҙҚқҜҝҞҟҠҡҢңҤҥҦҧҨҩҪҫҬҭҮүҰұҲҳ"
    \o "ҴҵҶҷҸҹҺһҼҽҾҿӀӁӂӃӄӅӆӇӈӉӊӋӌӍӎӏӐӑӒӓӔӕӖӗӘәӚӛӜӝӞӟӠӡӢӣӤӥӦӧӨөӪӫ"
    \o "ӬӭӮӯӰӱӲӳӴӵӶӷӸӹӺӻӼӽӾӿրցւփքօֆևֈႠႡႢႣႤႥႦႧႨႩႪႫႬႭႮႯႰႱႲႳႴႵႶႷႸႹႺ"
    \o "ႻႼႽႾႿჀჁჂჃჄჅჇჍაბგდევზთიკლმნოპჟრსტუფქღყშჩცძწჭხჯჰჱჲჳჴჵჶჷჸჹჺ"
    \o "ჽჾჿᎠᎡᎢᎣᎤᎥᎦᎧᎨᎩᎪᎫᎬᎭᎮᎯᎰᎱᎲᎳᎴᎵᎶᎷᎸᎹᎺᎻᎼᎽᎾᎿᏀᏁᏂᏃᏄᏅᏆᏇᏈᏉᏊᏋᏌᏍᏎᏏᏐᏑᏒᏓᏔ"
    \o "ᏕᏖᏗᏘᏙᏚᏛᏜᏝᏞᏟᏠᏡᏢᏣᏤᏥᏦᏧᏨᏩᏪᏫᏬᏭᏮᏯᏰᏱᏲᏳᏴᏵᏸᏹᏺᏻᏼᏽᲀᲁᲂᲃᲄᲅᲆᲇᲈᲐᲑᲒᲓᲔᲕᲖᲗ"
    \o "ᲘᲙᲚᲛᲜᲝᲞᲟᲠᲡᲢᲣᲤᲥᲦᲧᲨᲩᲪᲫᲬᲭᲮᲯᲰᲱᲲᲳᲴᲵᲶᲷᲸᲹᲺᲽᲾᲿᶀᶁᶂᶃᶄᶅᶆᶇᶈᶉᶊᶋᶌᶍᶎᶏᶐᶑ"
    \o "ᶒᶓᶔᶕᶖᶗᶘᶙᶚẀẁẂẃẄẅẆẇẈẉẊẋẌẍẎẏẐẑẒẓẔẕẖẗẘẙẚẛẜẝẞẟẠạẢảẤấẦầẨẩẪẫẬậẮ"
    \o "ắẰằẲẳẴẵẶặẸẹẺẻẼẽẾếỀềỂểỄễỆệỈỉỊịỌọỎỏỐốỒồỔổỖỗỘộỚớỜờỞởỠỡỢợỤụỦ"
    \o "ủỨứỪừỬửỮữỰựỲỳỴỵỶỷỸỹỺỻỼỽỾỿᾀᾁᾂᾃᾄᾅᾆᾇᾈᾉᾊᾋᾌᾍᾎᾏᾐᾑᾒᾓᾔᾕᾖᾗᾘᾙᾚᾛᾜᾝᾞ"
    \o "ᾟᾠᾡᾢᾣᾤᾥᾦᾧᾨᾩᾪᾫᾬᾭᾮᾯᾰᾱᾲᾳᾴᾶᾷᾸᾹᾺΆᾼιῂῃῄῆῇῈΈῊΉῌῐῑῒΐῖῗῘῙῚΊῠῡῢΰῤῥ"
    \o "ῦῧῨῩῪΎῬῲῳῴῶῷῸΌῺΏῼↃↄⒶⒷⒸⒹⒺⒻⒼⒽⒾⒿⓀⓁⓂⓃⓄⓅⓆⓇⓈⓉⓊⓋⓌⓍⓎⓏⓐⓑⓒⓓⓔⓕⓖⓗⓘⓙⓚ"
    \o "ⓛⓜⓝⓞⓟⓠⓡⓢⓣⓤⓥⓦⓧⓨⓩⲀⲁⲂⲃⲄⲅⲆⲇⲈⲉⲊⲋⲌⲍⲎⲏⲐⲑⲒⲓⲔⲕⲖⲗⲘⲙⲚⲛⲜⲝⲞⲟⲠⲡⲢⲣⲤⲥⲦⲧⲨ"
    \o "ⲩⲪⲫⲬⲭⲮⲯⲰⲱⲲⲳⲴⲵⲶⲷⲸⲹⲺⲻⲼⲽⲾⲿⳀⳁⳂⳃⳄⳅⳆⳇⳈⳉⳊⳋⳌⳍⳎⳏⳐⳑⳒⳓⳔⳕⳖⳗⳘⳙⳚⳛⳜⳝⳞⳟⳠ"
    \o "ⳡⳢⳣⳤⳫⳬⳭⳮⳲⳳꚀꚁꚂꚃꚄꚅꚆꚇꚈꚉꚊꚋꚌꚍꚎꚏꚐꚑꚒꚓꚔꚕꚖꚗꚘꚙꚚꚛꞀꞁꞂꞃꞄꞅꞆꞇꞋꞌꞍꞎꞐꞑꞒꞓꞔꞕ"
    \o "ꞖꞗꞘꞙꞚꞛꞜꞝꞞꞟꞠꞡꞢꞣꞤꞥꞦꞧꞨꞩꞪꞫꞬꞭꞮꞯꞰꞱꞲꞳꞴꞵꞶꞷꞸꞹꞺꞻꞼꞽꞾꞿꟀꟁꟂꟃꟄꟅꟆꟇꟈꟉꟊꟐꟑꟓ"
    \o "ꟕꟖꟗꟘꟙꟵꟶꟺꮀꮁꮂꮃꮄꮅꮆꮇꮈꮉꮊꮋꮌꮍꮎꮏꮐꮑꮒꮓꮔꮕꮖꮗꮘꮙꮚꮛꮜꮝꮞꮟꮠꮡꮢꮣꮤꮥꮦꮧꮨꮩꮪꮫꮬꮭꮮꮯ"
    \o "ꮰꮱꮲꮳꮴꮵꮶꮷꮸꮹꮺꮻꮼꮽꮾꮿ"

Cased == {SubSeq(CasedChars, i, i) : i \in 1..Len(CasedChars)}

\* the case-ignorable characters (apostrophe, full stop, colon, accents,
\* combining marks, modifier letters, format characters)
CaseIgnorableChars ==
    "'.:^¨­¯´·¸ʰʱʲʳʴʵʶʷʸʹʺʻʼʽʾʿˀˁ˂˃˄˅ˆˇˈˉˊˋˌˍˎˏːˑ˒˓˔˕˖˗˘˙˚˛˜˝"
    \o "˞˟ˠˡˢˣˤ˥˦˧˨˩˪˫ˬ˭ˮ˯˰˱˲˳˴˵˶˷˸˹˺˻˼˽˾˿΄΅·҃҄҅҆҇҈҉֑֖֛֚֒֓֔֕֗֘֙֜"
    \o "ְֱֲֳִֵֶַָׇֹֺֻּֽֿׁׂ֢֣֤֥֦֧֪ׅ֭֮֝֞֟֠֡֨֩֫֬֯ׄ״ۖۗۘۙۚۛۜ۝ۣ۟۠ۡۢۤۥۦ"
    \o "۪ۭۧۨ۫۬ަާިީުޫެޭޮޯް߲߫߬߭߮߯߰߱߳ߴߵߺ߽࢈࢐࢑࢙࢚࢛࢘࢜࢝࢞࢟ࣉ࣏࣐࣑࣒࣓࣊࣋࣌࣍࣎ࣔࣕࣖࣗ"
    \o "ࣘࣙࣚࣛࣜࣝࣞࣟ࣠࣡࣢ࣰࣱࣲࣣࣦࣩ࣭࣮࣯ࣶࣹࣺࣤࣥࣧࣨ࣪࣫࣬ࣳࣴࣵࣷࣸࣻࣼࣽࣾࣿঁ়ুূৃৄ্ৢৣ৾ઁં઼ુૂૃ"
    \o "ૄૅેૈ્ૢૣૺૻૼ૽૾૿ஂீ்ಁ಼ಿೆೌ್ೢೣඁ්ිීුූັິີຶື຺ຸູົຼໆ່້໊໋໌ໍ྄ཱྀྀྂྃ྆྇ྍྎ"
    \o "ྏྐྑྒྒྷྔྕྖྗྙྚྛྜྜྷྞྟྠྡྡྷྣྤྥྦྦྷྨྩྪྫྫྷྭྮྯྰྱྲླྴྵྶྷྸྐྵྺྻྼ࿆ႂႅႆႍႝჼ឴឵ិី"
    \o "ឹឺុូួំ៉៊់៌៍៎៏័៑្៓ៗ៝ᢅᢆᢩᪧ᪵᪶᪷᪸᪹᪺᪽᪰᪱᪲᪳᪴᪻᪼᪾ᪿᫀ᫃᫄᫊᫁᫂᫅᫆᫇᫈᫉᫋ᫌᫍᫎᮀᮁ"
    \o "ᮢᮣᮤᮥᮨᮩ᮫ᮬᮭ᯦ᯨᯩᯭᯯᯰᯱ᳔᳢᳣᳤᳥᳦᳧᳨᳕᳖᳗᳘᳙᳜᳝᳞᳟᳭᳐᳑᳒᳚᳛᳠᳴᳸᳹ᶛᶜᶝᶞᶟᶠᶡᶢᶣᶤᶥᶦᶧ"
    \o "ᶨᶩᶪᶫᶬᶭᶮᶯᶰᶱᶲᶳᶴᶵᶶᶷᶸᶹᶺᶻᶼᶽᶾᶿ᷐᷎᷂᷊᷏᷀᷁᷃᷄᷅᷆᷇᷈᷉᷋᷌᷑᷒ᷓᷔᷕᷖᷗᷘᷙᷚᷛᷜᷝᷞᷟ᷍"
    \o "᷺᷹᷽᷿᷷᷸ᷠᷡᷢᷣᷤᷥᷦᷧᷨᷩᷪᷫᷬᷭᷮᷯᷰᷱᷲᷳᷴ᷵᷻᷾᷶᷼᾽᾿῀῁῍῎῏῝῞῟῭΅`´῾ₐₑₒₓₔₕₖₗₘ"
    \o "ₙₚₛₜ⃒⃓⃘⃙⃚⃐⃑⃔⃕⃖⃗⃛⃜⃝⃞⃟⃠⃡⃢⃣⃤⃥⃦⃪⃫⃨⃬⃭⃮⃯⃧⃩⃰⳯⳰⳱ⷠⷡⷢⷣⷤⷥⷦⷧⷨⷩⷪⷫⷬⷭⷮⷯ"
    \o "゙゚ⷰⷱⷲⷳⷴⷵⷶⷷⷸⷹⷺⷻⷼⷽⷾⷿ゛゜ゝゞーヽヾꓸꓹꓺꓻꓼꓽꚜꚝꚞꚟ꛰꛱ꞈ꞉꞊ꟲꟳꟴꟸꟹ꣄ꣅ꣠꣡꣢꣣꣤꣥꣦꣧꣨"
    \o "꣩꣪꣫꣬꣭꣮꣯꣰꣱ꣿꦀꦁꦂ꦳ꦶꦷꦸꦹꦼꦽꧏꧥꧦꪴꪰꪲꪳꪷꪸꪾ꪿꫁ꫝꫬꫭꫳꫴ꫶ꯥꯨ꯭﮲﮳﮴﮵﮶﮷﮸﮹﮺﮻﮼﮽﮾﮿﯀"
    \o "﯁﯂﻿ﾞﾟ￣￹￺￻"

CaseIgnorable ==
    {SubSeq(CaseIgnorableChars, i, i) : i \in 1..Len(CaseIgnorableChars)}

\* the capital sigma at position i of s ends a word: the nearest character
\* before it that is not case-ignorable is cased, and the nearest one after
\* it, if there is one, is not
FinalSigma(s, i) ==
    /\ \E j \in 1..(i - 1) :
           /\ SubSeq(s, j, j) \in Cased
           /\ \A k \in (j + 1)..(i - 1) : SubSeq(s, k, k) \in CaseIgnorable
    /\ ~\E j \in (i + 1)..Len(s) :
           /\ SubSeq(s, j, j) \in Cased
           /\ \A k \in (i + 1)..(j - 1) : SubSeq(s, k, k) \in CaseIgnorable

\* a path that is matched as written, without lower-casing
lower_forgotten(s) == Chars(s)

\* the characters of s.lower() from position i on: each character by
\* LowerChar, but a capital sigma that ends a word becomes the final sigma
RECURSIVE LowerFrom(_, _)
LowerFrom(s, i) ==
    IF i > Len(s) THEN <<>>
    ELSE LET c == SubSeq(s, i, i)
         IN  <<IF c = "Σ" /\ FinalSigma(s, i) THEN "ς" ELSE LowerChar(c)>>
                 \o LowerFrom(s, i + 1)

\* str.lower(): the text of the lower-cased string
lower(s) == LowerFrom(s, 1)

\* Python's  sub in s  for a string sub and a text s
StrIn(sub, s) ==
    \E i \in 1..(Len(s) - Len(sub) + 1) :
        \A k \in 1..Len(sub) : s[i + k - 1] = SubSeq(sub, k, k)

\* Python's  x in list
ListIn(x, list) == \E i \in 1..Len(list) : list[i] = x

-----------------------------------------------------------------------------
(* TestPlanGenerator._infer_required_peripherals                           *)

_infer_required_peripherals(test_path) ==
    LET test_lower == lower(test_path)
        p0 == <<>>
        p1 == IF StrIn("i2c", test_lower) THEN Append(p0, "i2c") ELSE p0
        p2 == IF StrIn("spi", test_lower) THEN Append(p1, "spi") ELSE p1
        p3 == IF \/ StrIn("uart", test_lower)
                 \/ StrIn("console", test_lower)
                 \/ StrIn("shell", test_lower)
              THEN Append(p2, "uart") ELSE p2
        p4 == IF StrIn("gpio", test_lower) \/ StrIn("blinky", test_lower)
              THEN Append(p3, "gpio") ELSE p3
        p5 == IF StrIn("can", test_lower) THEN Append(p4, "can") ELSE p4
        p6 == IF StrIn("net", test_lower) \/ StrIn("ethernet", test_lower)
              THEN Append(p5, "ethernet") ELSE p5
        p7 == IF StrIn("adc", test_lower) THEN Append(p6, "adc") ELSE p6
        p8 == IF StrIn("pwm", test_lower) THEN Append(p7, "pwm") ELSE p7
    IN  p8

-----------------------------------------------------------------------------
(* PeripheralMatrixLoader                                                  *)

\* dict.get(board_name) is None exactly when the key is absent
HasBoard(board_name) == board_name \in DOMAIN boards

get_board_config(board_name) == boards[board_name]

get_all_boards == board_keys

-----------------------------------------------------------------------------
(* TestPlanGenerator.generate_for_board                                    *)

TestPlan(board, test_path, category, required_peripherals) ==
    [board |-> board, test_path |-> test_path, category |-> category,
     required_peripherals |-> required_peripherals]

\* a support check that is left out
supports_unchecked(board_config, required_peripherals) == TRUE

\* a support check that accepts a test as soon as one peripheral is present
supports_any(board_config, required_peripherals) ==
    \E k \in 1..Len(required_peripherals) :
        ListIn(required_peripherals[k], board_config.peripherals)

\* all(p in board_config.peripherals for p in required_peripherals)
supports_all(board_config, required_peripherals) ==
    \A k \in 1..Len(required_peripherals) :
        ListIn(required_peripherals[k], board_config.peripherals)

\* the condition under which generate_for_board keeps a test
board_supports(board_config, required_peripherals) ==
    supports_all(board_config, required_peripherals)

\* for test_path in tests: ...   from index i on, test_plans being acc
RECURSIVE for_test_path(_, _, _, _, _)
for_test_path(board_name, category, tests, i, acc) ==
    IF i > Len(tests) THEN acc
    ELSE LET test_path == tests[i]
             required_peripherals == _infer_required_peripherals(test_path)
         IN  for_test_path(board_name, category, tests, i + 1,
                 IF board_supports(get_board_config(board_name), required_peripherals)
                 THEN Append(acc, TestPlan(board_name, test_path, category,
                                           required_peripherals))
                 ELSE acc)

\* for category, tests in board_config.test_suites.items(): ...
RECURSIVE for_category(_, _, _, _)
for_category(board_name, items, j, acc) ==
    IF j > Len(items) THEN acc
    ELSE for_category(board_name, items, j + 1,
             for_test_path(board_name, items[j].category, items[j].tests, 1, acc))

generate_for_board(board_name) ==
    IF ~HasBoard(board_name) THEN <<>>
    ELSE for_category(board_name, get_board_config(board_name).test_suites, 1, <<>>)

-----------------------------------------------------------------------------
(* TestPlanGenerator.generate_for_all_boards                               *)

\* Optional[list[str]]
None == [none |-> TRUE, list |-> <<>>]
Some(list) == [none |-> FALSE, list |-> list]

\* truth value of an Optional[list]: None and [] are false
Truthy(opt) == ~opt.none /\ Len(opt.list) > 0

\* the boards iterated when a filter is never looked at
select_boards_ignoring_filter(board_filter) == get_all_boards

\* boards = board_filter if board_filter else self.loader.get_all_boards()
select_boards(board_filter) ==
    IF Truthy(board_filter) THEN board_filter.list ELSE get_all_boards

\* a loop over the boards that gives up at the first unknown board
RECURSIVE for_board_name_until_unknown(_, _, _)
for_board_name_until_unknown(boards_list, i, all_plans) ==
    IF i > Len(boards_list) \/ ~HasBoard(boards_list[i]) THEN all_plans
    ELSE for_board_name_until_unknown(boards_list, i + 1,
             all_plans \o generate_for_board(boards_list[i]))

\* for board_name in boards: all_plans.extend(generate_for_board(board_name))
RECURSIVE for_board_name(_, _, _)
for_board_name(boards_list, i, all_plans) ==
    IF i > Len(boards_list) THEN all_plans
    ELSE for_board_name(boards_list, i + 1,
                        all_plans \o generate_for_board(boards_list[i]))

generate_for_all_boards(board_filter) ==
    for_board_name(select_boards(board_filter), 1, <<>>)

-----------------------------------------------------------------------------
(* TestPlanGenerator.generate_by_group                                     *)

\* dict.get(key, default) on a group dict
GroupGet(group_config, key, default) ==
    IF key \in group_config.keys THEN group_config[key] ELSE default

\* a YAML list as the value of 'boards'
BoardList(list) == [is_str |-> FALSE, str |-> "", list |-> list]
\* a YAML scalar as the value of 'boards'
BoardStr(str) == [is_str |-> TRUE, str |-> str, list |-> <<>>]

\* the group is found and its dict is not empty ('not group_config' is false)
HasGroup(group_name) ==
    /\ group_name \in DOMAIN test_groups
    /\ test_groups[group_name].keys # {}

\* a resolution that takes the explicit list even for the 'all' scalar
resolve_boards_no_all(boards_value) == boards_value.list

\* if boards == 'all': boards = self.loader.get_all_boards()
\* (a scalar other than 'all' is iterated character by character)
resolve_boards(boards_value) ==
    IF boards_value.is_str /\ boards_value.str = "all"
    THEN get_all_boards
    ELSE IF boards_value.is_str
         THEN [i \in 1..Len(boards_value.str) |-> SubSeq(boards_value.str, i, i)]
         ELSE boards_value.list

\* the inner loop with the compatibility check of generate_for_board added
RECURSIVE for_group_test_filtered(_, _, _, _, _)
for_group_test_filtered(board, group_name, tests, i, acc) ==
    IF i > Len(tests) THEN acc
    ELSE for_group_test_filtered(board, group_name, tests, i + 1,
             IF /\ HasBoard(board)
                /\ supports_all(get_board_config(board),
                                _infer_required_peripherals(tests[i]))
             THEN Append(acc, TestPlan(board, tests[i], group_name,
                                       _infer_required_peripherals(tests[i])))
             ELSE acc)

\* for test_path in tests: test_plans.append(...)   (no compatibility check)
RECURSIVE for_group_test(_, _, _, _, _)
for_group_test(board, group_name, tests, i, acc) ==
    IF i > Len(tests) THEN acc
    ELSE for_group_test(board, group_name, tests, i + 1,
             Append(acc, TestPlan(board, tests[i], group_name,
                                  _infer_required_peripherals(tests[i]))))

\* for board in boards: ...
RECURSIVE for_group_board(_, _, _, _, _)
for_group_board(boards_list, group_name, tests, j, acc) ==
    IF j > Len(boards_list) THEN acc
    ELSE for_group_board(boards_list, group_name, tests, j + 1,
             for_group_test(boards_list[j], group_name, tests, 1, acc))

generate_by_group(group_name) ==
    IF ~HasGroup(group_name) THEN <<>>
    ELSE LET group_config == test_groups[group_name]
             tests == GroupGet(group_config, "tests", <<>>)
             boards_value == GroupGet(group_config, "boards", BoardList(<<>>))
         IN  for_group_board(resolve_boards(boards_value), group_name, tests,
                             1, <<>>)

-----------------------------------------------------------------------------
(* Ordering of strings, as Python compares str: by code point.             *)

\* the characters of the modelled names, in code point order
CodePointOrder ==
    "/0123456789ABCDEFGHIJKLMNOPQRSTUVWXYZ_abcdefghijklmnopqrstuvwxyz"

Ord(c) == CHOOSE i \in 1..Len(CodePointOrder) : SubSeq(CodePointOrder, i, i) = c

\* a < b on str
RECURSIVE StrLess(_, _)
StrLess(a, b) ==
    IF Len(b) = 0 THEN FALSE
    ELSE IF Len(a) = 0 THEN TRUE
    ELSE IF SubSeq(a, 1, 1) = SubSeq(b, 1, 1)
         THEN StrLess(SubSeq(a, 2, Len(a)), SubSeq(b, 2, Len(b)))
         ELSE Ord(SubSeq(a, 1, 1)) < Ord(SubSeq(b, 1, 1))

\* some enumeration of a finite set as a sequence
RECURSIVE SetToSeq(_)
SetToSeq(S) ==
    IF S = {} THEN <<>>
    ELSE LET x == CHOOSE y \in S : TRUE IN <<x>> \o SetToSeq(S \ {x})

\* sorted(S) for a set of str
SortedStrings(S) == SortSeq(SetToSeq(S), LAMBDA a, b : StrLess(a, b))

-----------------------------------------------------------------------------
(* TestPlanGenerator.print_summary and export_to_json                      *)

\* set(plan.board for plan in test_plans)
boards_set(plans) == {plans[i].board : i \in 1..Len(plans)}

\* set(plan.test_path for plan in test_plans)
tests_set(plans) == {plans[i].test_path : i \in 1..Len(plans)}

\* board_stats[board]: the test paths of the board's entries, in plan order
board_stats(plans, board) ==
    LET own == SelectSeq(plans, LAMBDA plan : plan.board = board)
    IN  [i \in 1..Len(own) |-> own[i].test_path]

\* a count of distinct boards that counts the entries instead
count_boards_with_duplicates(plans) == Len(plans)

\* len(set(plan.board for plan in test_plans))
count_boards(plans) == Cardinality(boards_set(plans))

\* len(set(plan.test_path for plan in test_plans))
count_unique_tests(plans) == Cardinality(tests_set(plans))

\* what print_summary writes: the three counts, then one line per board of
\* sorted(board_stats.items()) with the number of its tests
print_summary(plans) ==
    LET names == SortedStrings(boards_set(plans))
    IN  [total |-> Len(plans),
         boards |-> count_boards(plans),
         tests |-> count_unique_tests(plans),
         distribution |->
             [i \in 1..Len(names) |->
                 [board |-> names[i],
                  tests |-> Len(board_stats(plans, names[i]))]]]

\* an export that writes every different entry once, at its first place
export_to_json_unique(plans) ==
    LET first == SelectSeq([i \in 1..Len(plans) |-> i],
                           LAMBDA i : \A j \in 1..(i - 1) : plans[j] # plans[i])
    IN  [test_plans |-> [k \in 1..Len(first) |-> plans[first[k]]],
         summary |->
             [total_tests |-> Len(plans),
              boards |-> count_boards(plans),
              unique_tests |-> count_unique_tests(plans)]]

\* the document export_to_json builds and dumps
export_to_json(plans) ==
    [test_plans |->
         [i \in 1..Len(plans) |->
             [board |-> plans[i].board,
              test_path |-> plans[i].test_path,
              category |-> plans[i].category,
              required_peripherals |-> plans[i].required_peripherals]],
     summary |->
         [total_tests |-> Len(plans),
          boards |-> count_boards(plans),
          unique_tests |-> count_unique_tests(plans)]]

-----------------------------------------------------------------------------
(* The local build runner (boards/gd/scripts/gd32_local_tester.py).        *)
(*                                                                         *)
(*   TestCase      [name, path, platforms]                                 *)
(*   a build task  [board, tc]: a board and a TestCase                     *)
(*   BuildResult   [board, testcase, success, message, has_build_dir,      *)
(*                  build_dir, log_output]                                 *)
(*   proc          what subprocess.run does for a build:                   *)
(*                 [kind, returncode, output, error] with kind "exit" (the *)
(*                 process ended with returncode and wrote output),        *)
(*                 "timeout" (TimeoutExpired) or "exception" (any other    *)
(*                 exception e, error being str(e))                        *)

BUILD_DIR_PREFIX == "gd32_build_"
DEFAULT_TIMEOUT == 600
MAX_LOG_LENGTH == 1000

\* str(n) for a natural number
RECURSIVE IntToStr(_)
IntToStr(n) ==
    IF n < 10 THEN SubSeq("0123456789", n + 1, n + 1)
    ELSE IntToStr(n \div 10) \o SubSeq("0123456789", (n % 10) + 1, (n % 10) + 1)

\* s.replace(old, new) for single characters
RECURSIVE replace(_, _, _)
replace(s, old, new) ==
    IF Len(s) = 0 THEN ""
    ELSE (IF SubSeq(s, 1, 1) = old THEN new ELSE SubSeq(s, 1, 1))
             \o replace(SubSeq(s, 2, Len(s)), old, new)

\* '\n'.join(lines)
RECURSIVE join(_)
join(lines) ==
    IF Len(lines) = 0 THEN ""
    ELSE IF Len(lines) = 1 THEN lines[1]
    ELSE lines[1] \o "\n" \o join(Tail(lines))

\* list[-n:]
LastItems(list, n) ==
    IF Len(list) <= n THEN list ELSE SubSeq(list, Len(list) - n + 1, Len(list))

\* the positions of the line feeds of s
LineFeeds(s) == {i \in 1..Len(s) : SubSeq(s, i, i) = "\n"}

\* s.split('\n'): the pieces between consecutive line feeds
split_lines(s) ==
    LET feeds == LineFeeds(s)
        \* the k-th line feed, 0 before the first and Len(s) + 1 after the last
        feed(k) == IF k = 0 THEN 0
                   ELSE IF k > Cardinality(feeds) THEN Len(s) + 1
                   ELSE CHOOSE p \in feeds :
                            Cardinality({q \in feeds : q < p}) = k - 1
    IN  [k \in 1..(Cardinality(feeds) + 1) |->
            SubSeq(s, feed(k - 1) + 1, feed(k) - 1)]

\* the characters str.strip() removes: code points 9-13 (\t \n \v \f \r),
\* 28-32 (FS GS RS US and the space), 133 (NEL), 160 (no-break space) and
\* U+1680 (ogham space mark); those without an escape are written as they
\* are. str.strip() also removes U+2000-U+200A, U+2028, U+2029, U+202F,
\* U+205F and U+3000, which a string of a module cannot hold
Whitespace ==
    {" ", "\n", "\t", "\r", "\f", "", "", "", "", "", "", " ",
     " "}

\* s.strip()
strip(s) ==
    LET kept == {i \in 1..Len(s) : SubSeq(s, i, i) \notin Whitespace}
    IN  IF kept = {} THEN ""
        ELSE SubSeq(s, CHOOSE i \in kept : \A j \in kept : i <= j,
                       CHOOSE i \in kept : \A j \in kept : j <= i)

\* sub in line.lower(), for a lower-case sub of ASCII characters (which
\* neither sigma is)
InLower(sub, line) ==
    \E i \in 1..(Len(line) - Len(sub) + 1) :
        \A k \in 1..Len(sub) :
            LowerChar(SubSeq(line, i + k - 1, i + k - 1)) = SubSeq(sub, k, k)

TestCase(name, path, platforms) ==
    [name |-> name, path |-> path, platforms |-> platforms]

BuildResult(board, testcase, success, message, has_build_dir, build_dir, log_output) ==
    [board |-> board, testcase |-> testcase, success |-> success,
     message |-> message, has_build_dir |-> has_build_dir,
     build_dir |-> build_dir, log_output |-> log_output]

\* output[-MAX_LOG_LENGTH:] if len(output) > MAX_LOG_LENGTH else output
truncate_log(output) ==
    IF Len(output) > MAX_LOG_LENGTH
    THEN SubSeq(output, Len(output) - MAX_LOG_LENGTH + 1, Len(output))
    ELSE output

\* the error message west_build extracts from the output of a failed build
error_message(output) ==
    LET lines == split_lines(output)
        error_lines ==
            SelectSeq(lines, LAMBDA line : \/ InLower("error:", line)
                                           \/ InLower("fatal error:", line))
    IN  IF Len(error_lines) > 0
        THEN join(LastItems(error_lines, 5))
        ELSE join(LastItems(split_lines(strip(output)), 10))

\* west_build, run being what subprocess.run does
west_build(board, testcase, build_dir, timeout, run) ==
    IF run.kind = "exit"
    THEN IF run.returncode = 0
         THEN BuildResult(board, testcase.name, TRUE, "Build successful",
                          TRUE, build_dir, truncate_log(run.output))
         ELSE BuildResult(board, testcase.name, FALSE,
                          "Build failed:\n" \o error_message(run.output),
                          TRUE, build_dir, truncate_log(run.output))
    ELSE IF run.kind = "timeout"
    THEN BuildResult(board, testcase.name, FALSE,
                     "Build timeout after " \o IntToStr(timeout) \o "s",
                     FALSE, "", "Build timed out")
    ELSE BuildResult(board, testcase.name, FALSE,
                     "Build error: " \o run.error, FALSE, "", run.error)

\* the build directory build_worker derives for a task
build_dir_of(work_dir, board, testcase) ==
    LET safe_name == replace(replace(testcase.name, "/", "_"), ".", "_")
    IN  work_dir \o "/" \o BUILD_DIR_PREFIX \o board \o "_" \o safe_name

\* a filter that forgets the user's platform filter
filter_boards_ignoring_user_filter(testcase, all_gd32_boards, platform_filter) ==
    IF Len(testcase.platforms) > 0
    THEN SelectSeq(testcase.platforms, LAMBDA b : ListIn(b, all_gd32_boards))
    ELSE all_gd32_boards

filter_boards_for_testcase(testcase, all_gd32_boards, platform_filter) ==
    LET boards_of_tc ==
            IF Len(testcase.platforms) > 0
            THEN SelectSeq(testcase.platforms,
                           LAMBDA b : ListIn(b, all_gd32_boards))
            ELSE all_gd32_boards
    IN  IF Truthy(platform_filter)
        THEN SelectSeq(boards_of_tc, LAMBDA b : ListIn(b, platform_filter.list))
        ELSE boards_of_tc

\* for board in boards: build_tasks.append((board, tc))
tasks_of_testcase(tc, all_gd32_boards, platform_filter) ==
    LET bs == filter_boards_for_testcase(tc, all_gd32_boards, platform_filter)
    IN  [i \in 1..Len(bs) |-> [board |-> bs[i], tc |-> tc]]

\* for tc in testcases: ...   the build matrix of main
RECURSIVE build_matrix(_, _, _, _, _)
build_matrix(tcs, all_gd32_boards, platform_filter, i, acc) ==
    IF i > Len(tcs) THEN acc
    ELSE build_matrix(tcs, all_gd32_boards, platform_filter, i + 1,
             acc \o tasks_of_testcase(tcs[i], all_gd32_boards, platform_filter))

\* sum(1 for r in results if r.success)
RECURSIVE count_passed(_)
count_passed(rs) ==
    IF Len(rs) = 0 THEN 0
    ELSE (IF rs[1].success THEN 1 ELSE 0) + count_passed(Tail(rs))

\* sum(1 for r in results if not r.success)
RECURSIVE count_failed(_)
count_failed(rs) ==
    IF Len(rs) = 0 THEN 0
    ELSE (IF rs[1].success THEN 0 ELSE 1) + count_failed(Tail(rs))

\* generate_json_report: the report without its timestamp and durations
generate_json_report(rs) ==
    [summary |-> [total |-> Len(rs), passed |-> count_passed(rs),
                  failed |-> count_failed(rs)],
     results |-> [i \in 1..Len(rs) |->
                     [board |-> rs[i].board, testcase |-> rs[i].testcase,
                      success |-> rs[i].success, message |-> rs[i].message]]]

\* an exit code that reports success whatever the results are
exit_code_always_zero(rs) == 0

\* return 0 if failed_count == 0 else 1
exit_code_of(rs) == IF count_failed(rs) = 0 THEN 0 ELSE 1

-----------------------------------------------------------------------------
(* The configurations, arguments and test paths the model ranges over.     *)

BoardNames == {"gd32f407v_start", "gd32e507z_eval", "gd32a503v_eval"}

GroupNames == {"essential", "drivers", "nightly"}

Range(seq) == {seq[i] : i \in 1..Len(seq)}

\* sequences over S of length at most n
SeqsUpTo(S, n) == UNION {[1..k -> S] : k \in 0..n}

Suite(category, tests) == [category |-> category, tests |-> tests]

BoardConfig(name, series, board_peripherals, test_suites, arch) ==
    [name |-> name, series |-> series, peripherals |-> board_peripherals,
     test_suites |-> test_suites, arch |-> arch]

\* the 'peripherals' lists a board may declare (the last board declares none:
\* board_info.get('peripherals', []) gives the empty list)
PeripheralChoices(name) ==
    IF name = "gd32f407v_start"
    THEN {<<"gpio", "uart">>, <<"uart", "i2c">>}
    ELSE IF name = "gd32e507z_eval"
    THEN {<<"gpio", "uart", "i2c", "spi", "can", "adc", "pwm">>}
    ELSE {<<>>}

\* the 'test_suites' a board declares, categories in declaration order
TestSuitesOf(name) ==
    IF name = "gd32f407v_start"
    THEN <<Suite("basic", <<"samples/basic/blinky", "samples/hello_world">>),
           Suite("drivers", <<"tests/drivers/i2c",
                              "tests/drivers/UART/uart_basic_api">>)>>
    ELSE IF name = "gd32e507z_eval"
    THEN <<Suite("drivers", <<"tests/drivers/spi/spi_loopback",
                              "samples/net/sockets/echo",
                              "samples/basic/blinky">>),
           Suite("basic", <<"samples/subsys/shell/shell_module">>)>>
    ELSE <<Suite("basic", <<"samples/hello_world", "samples/basic/blinky">>),
           Suite("drivers", <<>>)>>

SeriesOf(name) ==
    IF name = "gd32f407v_start" THEN "gd32f4xx"
    ELSE IF name = "gd32e507z_eval" THEN "gd32e50x" ELSE "unknown"

ArchOf(name) == "arm"

\* the orders in which a configuration may declare its boards
KeyOrders ==
    {keys \in SeqsUpTo(BoardNames, MaxBoards) :
        \A i, j \in 1..Len(keys) : i # j => keys[i] # keys[j]}

\* the board dicts a configuration with these keys may load
BoardDicts(keys) ==
    {[name \in Range(keys) |->
          BoardConfig(name, SeriesOf(name), pick[name], TestSuitesOf(name),
                      ArchOf(name))] :
        pick \in {f \in [Range(keys) -> UNION {PeripheralChoices(n) : n \in BoardNames}] :
                     \A n \in Range(keys) : f[n] \in PeripheralChoices(n)}}

GroupDict(keys, tests, boards_value) ==
    [keys |-> keys, tests |-> tests, boards |-> boards_value]

EmptyDict == GroupDict({}, <<>>, BoardList(<<>>))

\* the 'test_groups' sections a configuration may hold
GroupCatalog ==
    { [g \in {"essential", "drivers"} |->
          IF g = "essential"
          THEN GroupDict({"description", "tests", "boards"},
                         <<"samples/basic/blinky", "samples/hello_world">>,
                         BoardStr("all"))
          ELSE GroupDict({"description", "tests", "boards"},
                         <<"tests/drivers/i2c", "tests/drivers/spi">>,
                         BoardList(<<"gd32f407v_start", "gd32a503v_eval">>))],
      [g \in {"essential", "drivers"} |->
          IF g = "essential"
          THEN GroupDict({"tests", "boards"},
                         <<"samples/basic/blinky">>,
                         BoardList(<<"gd32e507z_eval", "gd32e507z_eval">>))
          ELSE EmptyDict],
      [g \in {"essential", "drivers"} |->
          IF g = "essential"
          THEN GroupDict({"description", "boards"}, <<>>, BoardStr("all"))
          ELSE GroupDict({"description", "tests"},
                         <<"tests/drivers/adc">>, BoardList(<<>>))],
      [g \in {"essential"} |->
          GroupDict({"tests", "boards"},
                    <<"tests/drivers/CAN/can_api", "samples/net/sockets/echo">>,
                    BoardStr("all"))],
      [g \in {"essential", "drivers"} |->
          IF g = "essential"
          THEN GroupDict({"tests", "boards"},
                         <<"samples/hello_world">>,
                         BoardList(<<"gd32a503v_eval", "gd32f407v_start">>))
          ELSE GroupDict({"tests", "boards"},
                         <<"samples/basic/blinky">>, BoardStr("ALL"))] }

\* the names a board filter is made of
FilterNames == {"gd32f407v_start", "gd32a503v_eval"}

\* the board_filter arguments: None, or a list of board names
Filters == {None} \cup {Some(list) : list \in SeqsUpTo(FilterNames, MaxFilterLen)}

\* pieces test paths are put together from
PathTokens ==
    {"tests/drivers/", "hello_world", "i2c", "I2C", "spi", "s", "pi", "uart",
     "console", "Shell", "gpio", "Blinky", "can", "net", "ethernet", "adc",
     "PWM", "É", "ß", "Σ", "Ɓ"}

\* the paths made of at most n pieces
RECURSIVE PathsOf(_)
PathsOf(n) ==
    IF n = 0 THEN {""}
    ELSE LET shorter == PathsOf(n - 1)
         IN  shorter \cup {p \o t : p \in shorter, t \in PathTokens}

TestPaths == PathsOf(MaxPathTokens)

-----------------------------------------------------------------------------
(* The state machine: a loaded configuration and calls on the generator.   *)

\* the build runner has not been started
RunnerIdle ==
    /\ gd32_boards = <<>>
    /\ testcases = <<>>
    /\ args = [platforms |-> None, jobs |-> 1, timeout |-> DEFAULT_TIMEOUT]
    /\ pc = "idle"
    /\ build_tasks = <<>>
    /\ pending = <<>>
    /\ taken = {}
    /\ running = {}
    /\ completed = {}
    /\ results = <<>>
    /\ attempts = <<>>
    /\ exit_code = <<>>
    /\ report = <<>>
    /\ proc = [kind |-> "exit", returncode |-> 0, output |-> "", error |-> ""]

Init ==
    /\ RunnerIdle
    /\ board_keys \in KeyOrders
    /\ boards \in BoardDicts(board_keys)
    /\ test_groups \in GroupCatalog
    /\ call = [op |-> "load_config"]
    /\ test_plans = <<>>
    /\ peripherals = <<>>
    /\ printed = <<>>
    /\ data = <<>>

GenerateForBoard ==
    \E board_name \in BoardNames :
        /\ call' = [op |-> "generate_for_board", board_name |-> board_name]
        /\ test_plans' = generate_for_board(board_name)
        /\ printed' = <<>>
        /\ data' = <<>>
        /\ UNCHANGED <<config, peripherals, runner>>

GenerateForAllBoards ==
    \E board_filter \in Filters :
        /\ call' = [op |-> "generate_for_all_boards",
                    board_filter |-> board_filter]
        /\ test_plans' = generate_for_all_boards(board_filter)
        /\ printed' = <<>>
        /\ data' = <<>>
        /\ UNCHANGED <<config, peripherals, runner>>

\* a group generation that stores the boards it resolved 'all' to in the group
GenerateByGroupStoringBoards ==
    \E group_name \in GroupNames :
        /\ call' = [op |-> "generate_by_group", group_name |-> group_name]
        /\ test_plans' = generate_by_group(group_name)
        /\ printed' = <<>>
        /\ data' = <<>>
        /\ test_groups' =
               IF /\ HasGroup(group_name)
                  /\ GroupGet(test_groups[group_name], "boards", BoardList(<<>>))
                         = BoardStr("all")
               THEN [test_groups EXCEPT
                        ![group_name].boards = BoardList(get_all_boards)]
               ELSE test_groups
        /\ UNCHANGED <<boards, board_keys, peripherals, runner>>

GenerateByGroup ==
    \E group_name \in GroupNames :
        /\ call' = [op |-> "generate_by_group", group_name |-> group_name]
        /\ test_plans' = generate_by_group(group_name)
        /\ printed' = <<>>
        /\ data' = <<>>
        /\ UNCHANGED <<config, peripherals, runner>>

PrintSummary ==
    /\ call' = [op |-> "print_summary"]
    /\ printed' = <<print_summary(test_plans)>>
    /\ data' = <<>>
    /\ UNCHANGED <<config, test_plans, peripherals, runner>>

ExportToJson ==
    /\ call' = [op |-> "export_to_json"]
    /\ data' = <<export_to_json(test_plans)>>
    /\ printed' = <<[total |-> data'[1].summary.total_tests,
                     boards |-> data'[1].summary.boards,
                     tests |-> data'[1].summary.unique_tests,
                     distribution |-> <<>>]>>
    /\ UNCHANGED <<config, test_plans, peripherals, runner>>

Next ==
    \/ GenerateForBoard
    \/ GenerateForAllBoards
    \/ GenerateByGroup
    \/ PrintSummary
    \/ ExportToJson

Spec == Init /\ [][Next]_vars

(* The inference alone, on test paths put together from PathTokens.        *)

InitInfer ==
    /\ RunnerIdle
    /\ board_keys = <<>>
    /\ boards \in BoardDicts(board_keys)
    /\ test_groups \in {g \in GroupCatalog : DOMAIN g = {"essential"}}
    /\ call \in {[op |-> "test", test_path |-> p] : p \in TestPaths}
    /\ test_plans = <<>>
    /\ peripherals = <<>>
    /\ printed = <<>>
    /\ data = <<>>

InferRequiredPeripherals ==
    /\ call.op = "test"
    /\ call' = [op |-> "_infer_required_peripherals",
                test_path |-> call.test_path]
    /\ peripherals' = _infer_required_peripherals(call.test_path)
    /\ UNCHANGED <<config, test_plans, printed, data, runner>>

NextInfer == InferRequiredPeripherals

SpecInfer == InitInfer /\ [][NextInfer]_vars

-----------------------------------------------------------------------------
(* The build runner: main of gd32_local_tester.py from the build matrix on.*)

\* the selector is not in use
SelectorIdle ==
    /\ board_keys = <<>>
    /\ boards \in BoardDicts(board_keys)
    /\ test_groups \in {g \in GroupCatalog : DOMAIN g = {"essential"}}
    /\ call = [op |-> "main"]
    /\ test_plans = <<>>
    /\ peripherals = <<>>
    /\ printed = <<>>
    /\ data = <<>>

\* board directories that may exist under boards/gd
GD32BoardNames == {"gd32f407v_start", "gd32e507z_eval", "gd32a503v_eval"}

\* what discover_gd32_boards may return when main goes on: a sorted list
\* without duplicates, not empty (main returns 1 when no board is found)
DiscoveredBoards(n) ==
    {SortedStrings(S) :
        S \in {T \in SUBSET GD32BoardNames : Cardinality(T) \in 1..n}}

\* platform_allow lists of test cases; nucleo_f401re is not a GD32 board
PlatformLists ==
    { <<>>,
      <<"gd32f407v_start">>,
      <<"gd32f407v_start", "gd32e507z_eval">>,
      <<"nucleo_f401re", "gd32e507z_eval">>,
      <<"gd32a503v_eval", "gd32a503v_eval">> }

\* the -p/--platform arguments: absent, or the list argparse collected
PlatformFilters ==
    { None,
      Some(<<"gd32f407v_start">>),
      Some(<<"gd32e507z_eval", "gd32f407v_start">>),
      Some(<<"nucleo_f401re">>) }

\* the i-th discovered test case, allowed on the given platforms
DiscoveredTestCase(i, platforms) ==
    TestCase("drivers.gpio.case" \o IntToStr(i),
             "tests/drivers/gpio/case" \o IntToStr(i), platforms)

\* the lists of test cases discovery may leave, of n test cases
TestCaseLists(n) ==
    UNION {{[i \in 1..k |-> DiscoveredTestCase(i, pl[i])] :
               pl \in [1..k -> PlatformLists]} : k \in 1..n}

\* main, from "# Generate build matrix" to the choice of the execution mode
GenerateBuildMatrix ==
    /\ pc = "start"
    /\ build_tasks' = build_matrix(testcases, gd32_boards, args.platforms,
                                   1, <<>>)
    /\ attempts' = [i \in 1..Len(build_tasks') |-> 0]
    /\ IF Len(build_tasks') = 0
       THEN pc' = "done" /\ exit_code' = <<0>>
       ELSE pc' = "execute" /\ exit_code' = exit_code
    /\ UNCHANGED <<selector, taken, gd32_boards, testcases, args, pending, running,
                   completed, results, report, proc>>

(* The build matrix alone, on the boards, test cases and filters above.    *)

InitMatrix ==
    /\ SelectorIdle
    /\ gd32_boards \in DiscoveredBoards(MaxDiscovered)
    /\ testcases \in TestCaseLists(MaxTestCases)
    /\ args \in {[platforms |-> f, jobs |-> 1, timeout |-> DEFAULT_TIMEOUT] :
                    f \in PlatformFilters}
    /\ pc = "start"
    /\ build_tasks = <<>>
    /\ pending = <<>>
    /\ taken = {}
    /\ running = {}
    /\ completed = {}
    /\ results = <<>>
    /\ attempts = <<>>
    /\ exit_code = <<>>
    /\ report = <<>>
    /\ proc = [kind |-> "exit", returncode |-> 0, output |-> "", error |-> ""]

NextMatrix == GenerateBuildMatrix

SpecMatrix == InitMatrix /\ [][NextMatrix]_vars

(* One build alone: build_worker on every kind of process outcome.         *)

\* s repeated n times
RECURSIVE Repeat(_, _)
Repeat(s, n) ==
    IF n = 0 THEN ""
    ELSE IF n % 2 = 0 THEN LET half == Repeat(s, n \div 2) IN half \o half
    ELSE s \o Repeat(s, n - 1)

\* the directory main passes as work_dir
WorkDir == "build"

\* combined stdout and stderr a west build may write
BuildOutputs ==
    { "",
      "-- west build: generating a build system\n[1/2] Building C object main.c.obj\n[2/2] Linking C executable zephyr.elf\n",
      "main.c:10:5: error: 'x' undeclared\nmain.c:11:1: Fatal Error: stop\nninja: build stopped: subcommand failed.\n",
      "a.c:1: error: e1\nb.c:2: ERROR: e2\nc.c:3: error: e3\nnote\nd.c:4: error: e4\ne.c:5: error: e5\nf.c:6: error: e6\ng.c:7: error: e7",
      "\n  l1\nl2\nl3\nl4\nl5\nl6\nl7\nl8\nl9\nl10\nl11\nl12 failed \n\n",
      "\fline1\nlast line\n\f\n",
      " boom  ",
      Repeat("x", MAX_LOG_LENGTH),
      "H" \o Repeat("x", MAX_LOG_LENGTH - 1) \o "T",
      "main.c:1:1: error: first\n"
          \o Repeat("[12/345] Building C object zephyr/kernel/sched.c.obj\n", 30)
          \o "FAILED: zephyr.elf\n" }

\* str(e) of an exception subprocess.run may raise
ExceptionTexts ==
    { "[Errno 2] No such file or directory: 'west'",
      "[Errno 13] Permission denied: '/" \o Repeat("zephyrproject/", 80) \o "zephyr'" }

\* what subprocess.run may do
ProcessOutcomes ==
    {[kind |-> "exit", returncode |-> rc, output |-> out, error |-> ""] :
        rc \in {0, 1, 2}, out \in BuildOutputs}
    \cup {[kind |-> "timeout", returncode |-> 0, output |-> "", error |-> ""]}
    \cup {[kind |-> "exception", returncode |-> 0, output |-> "", error |-> e] :
            e \in ExceptionTexts}

\* the --timeout arguments
Timeouts == {DEFAULT_TIMEOUT, 5}

InitBuild ==
    /\ SelectorIdle
    /\ gd32_boards = <<"gd32e507z_eval", "gd32f407v_start">>
    /\ testcases = <<TestCase("sample.basic.blinky", "samples/basic/blinky", <<>>)>>
    /\ args \in {[platforms |-> None, jobs |-> 1, timeout |-> t] : t \in Timeouts}
    /\ pc = "build_worker"
    /\ build_tasks \in {<<[board |-> b, tc |-> testcases[1]]>> :
                           b \in Range(gd32_boards)}
    /\ pending = <<>>
    /\ taken = {}
    /\ running = {}
    /\ completed = {}
    /\ results = <<>>
    /\ attempts = <<0>>
    /\ exit_code = <<>>
    /\ report = <<>>
    /\ proc \in ProcessOutcomes

\* build_worker(board, tc, ...) and the west_build it calls
BuildWorker ==
    /\ pc = "build_worker"
    /\ results' = <<west_build(build_tasks[1].board, build_tasks[1].tc,
                               build_dir_of(WorkDir, build_tasks[1].board,
                                            build_tasks[1].tc),
                               args.timeout, proc)>>
    /\ attempts' = [attempts EXCEPT ![1] = @ + 1]
    /\ pc' = "returned"
    /\ UNCHANGED <<selector, taken, gd32_boards, testcases, args, build_tasks,
                   pending, running, completed, exit_code, report, proc>>

NextBuild == BuildWorker

SpecBuild == InitBuild /\ [][NextBuild]_vars

(* A whole run: the matrix, the builds in either mode, the report.         *)

\* test cases of a run; the second is allowed on one board only
RunTestCases ==
    << TestCase("sample.basic.blinky", "samples/basic/blinky", <<>>),
       TestCase("sample_basic_blinky", "samples/boards/gd/blinky",
                <<"gd32f407v_start">>) >>

\* what subprocess.run may do for a build of a run
RunOutcomes ==
    { [kind |-> "exit", returncode |-> 0,
       output |-> "[2/2] Linking C executable zephyr.elf\n", error |-> ""],
      [kind |-> "exit", returncode |-> 1,
       output |-> "main.c:10:5: error: 'x' undeclared\n", error |-> ""],
      [kind |-> "timeout", returncode |-> 0, output |-> "", error |-> ""],
      [kind |-> "exception", returncode |-> 0, output |-> "",
       error |-> "[Errno 2] No such file or directory: 'west'"] }

\* build_worker for the i-th task of the matrix
build_worker(i, run) ==
    west_build(build_tasks[i].board, build_tasks[i].tc,
               build_dir_of(WorkDir, build_tasks[i].board, build_tasks[i].tc),
               args.timeout, run)

InitRun ==
    /\ SelectorIdle
    /\ gd32_boards = <<"gd32e507z_eval", "gd32f407v_start">>
    /\ testcases \in {SubSeq(RunTestCases, 1, k) : k \in 1..Len(RunTestCases)}
    /\ args \in {[platforms |-> f, jobs |-> j, timeout |-> DEFAULT_TIMEOUT] :
                    f \in {None, Some(<<"gd32f407v_start">>),
                           Some(<<"nucleo_f401re">>)},
                    j \in 0..MaxJobs}
    /\ pc = "start"
    /\ build_tasks = <<>>
    /\ pending = <<>>
    /\ taken = {}
    /\ running = {}
    /\ completed = {}
    /\ results = <<>>
    /\ attempts = <<>>
    /\ exit_code = <<>>
    /\ report = <<>>
    /\ proc = [kind |-> "exit", returncode |-> 0, output |-> "", error |-> ""]

\* if args.jobs == 1: one pass of  for board, tc in build_tasks
SequentialBuild ==
    /\ pc = "execute"
    /\ args.jobs = 1
    /\ LET i == Len(results) + 1
       IN  \E run \in RunOutcomes :
               /\ results' = Append(results, build_worker(i, run))
               /\ attempts' = [attempts EXCEPT ![i] = @ + 1]
               /\ pc' = IF i = Len(build_tasks) THEN "report" ELSE "execute"
    /\ UNCHANGED <<selector, taken, gd32_boards, testcases, args, build_tasks,
                   pending, running, completed, exit_code, report, proc>>

\* the tasks main has submitted to the executor so far
submitted ==
    Len(pending) + Cardinality(taken) + Cardinality(running)
        + Cardinality(completed) + Len(results)

\* else: ThreadPoolExecutor(max_workers=args.jobs), before the first task,
\* and executor.submit of the next task of the matrix; the constructor
\* raises ValueError for max_workers <= 0, which nothing catches, so the
\* interpreter ends with status 1; after the last task main goes on to
\* as_completed
Submit ==
    /\ pc = "execute"
    /\ args.jobs # 1
    /\ IF args.jobs <= 0
       THEN /\ pc' = "crashed"
            /\ exit_code' = <<1>>
            /\ pending' = pending
       ELSE /\ pc' = IF submitted + 1 = Len(build_tasks) THEN "as_completed"
                     ELSE "execute"
            /\ exit_code' = exit_code
            /\ pending' = Append(pending, submitted + 1)
    /\ UNCHANGED <<selector, taken, gd32_boards, testcases, args, build_tasks,
                   running, completed, results, attempts, report, proc>>

\* a free worker thread takes the next work item off the executor's queue,
\* be it while main is still submitting
WorkerTake ==
    /\ pc \in {"execute", "as_completed"}
    /\ Len(pending) > 0
    /\ Cardinality(taken) + Cardinality(running) < args.jobs
    /\ taken' = taken \cup {Head(pending)}
    /\ pending' = Tail(pending)
    /\ UNCHANGED <<selector, gd32_boards, testcases, args, pc, build_tasks,
                   running, completed, results, attempts, exit_code, report,
                   proc>>

\* a worker thread that took a task calls build_worker for it; threads that
\* took their tasks one after the other may get here in either order
WorkerStart ==
    /\ pc \in {"execute", "as_completed"}
    /\ \E i \in taken :
           /\ taken' = taken \ {i}
           /\ running' = running \cup {i}
           /\ attempts' = [attempts EXCEPT ![i] = @ + 1]
    /\ UNCHANGED <<selector, gd32_boards, testcases, args, pc, build_tasks,
                   pending, completed, results, exit_code, report, proc>>

\* a worker whose timed-out build goes back to the queue once
WorkerFinishRetryingTimeout ==
    /\ pc \in {"execute", "as_completed"}
    /\ \E i \in running :
           \E run \in RunOutcomes :
               /\ running' = running \ {i}
               /\ IF run.kind = "timeout" /\ attempts[i] < 2
                  THEN /\ pending' = Append(pending, i)
                       /\ completed' = completed
                  ELSE /\ pending' = pending
                       /\ completed' = completed \cup
                              {[task |-> i, result |-> build_worker(i, run)]}
    /\ UNCHANGED <<selector, taken, gd32_boards, testcases, args, pc, build_tasks,
                   results, attempts, exit_code, report, proc>>

\* the build of a worker thread ends: build_worker returns, its future is done
WorkerFinish ==
    /\ pc \in {"execute", "as_completed"}
    /\ \E i \in running :
           \E run \in RunOutcomes :
               /\ running' = running \ {i}
               /\ pending' = pending
               /\ completed' = completed \cup
                      {[task |-> i, result |-> build_worker(i, run)]}
    /\ UNCHANGED <<selector, taken, gd32_boards, testcases, args, pc, build_tasks,
                   results, attempts, exit_code, report, proc>>

\* for future in as_completed(futures): results.append(future.result())
Collect ==
    /\ pc = "as_completed"
    /\ \E f \in completed :
           /\ completed' = completed \ {f}
           /\ results' = Append(results, f.result)
    /\ pc' = IF Len(results') = Len(build_tasks) THEN "report"
             ELSE "as_completed"
    /\ UNCHANGED <<selector, taken, gd32_boards, testcases, args, build_tasks,
                   pending, running, attempts, exit_code, report, proc>>

\* main from "# Generate reports" to its return
Report ==
    /\ pc = "report"
    /\ report' = <<generate_json_report(results)>>
    /\ exit_code' = <<exit_code_of(results)>>
    /\ pc' = "done"
    /\ UNCHANGED <<selector, taken, gd32_boards, testcases, args, build_tasks,
                   pending, running, completed, results, attempts, proc>>

NextRun ==
    \/ GenerateBuildMatrix
    \/ SequentialBuild
    \/ Submit
    \/ WorkerTake
    \/ WorkerStart
    \/ WorkerFinish
    \/ Collect
    \/ Report

\* every thread that can take a step eventually takes one: worker threads
\* run, and a build ends or is ended by its timeout
SpecRun == InitRun /\ [][NextRun]_vars /\ WF_vars(NextRun)

-----------------------------------------------------------------------------
(* Notions the properties are stated with.                                 *)

GenerationOps ==
    {"generate_for_board", "generate_for_all_boards", "generate_by_group"}

\* the concatenation of a sequence of sequences
RECURSIVE Concat(_)
Concat(seqs) ==
    IF Len(seqs) = 0 THEN <<>> ELSE Head(seqs) \o Concat(Tail(seqs))

\* every peripheral an entry requires is one the board declares
Compatible(required, board_name) ==
    Range(required) \subseteq Range(boards[board_name].peripherals)

\* the (category, test_path) pairs a board declares, as entries, categories
\* in declared order and the paths of a category in declared order
DeclaredEntries(board_name) ==
    LET items == boards[board_name].test_suites
    IN  Concat([j \in 1..Len(items) |->
                   [i \in 1..Len(items[j].tests) |->
                       TestPlan(board_name, items[j].tests[i],
                                items[j].category,
                                _infer_required_peripherals(items[j].tests[i]))]])

\* C1: every entry generate_for_board returns for a board requires only
\* peripherals that are in the board's peripherals list.
C1_ForBoardRequiresSubset ==
    call.op = "generate_for_board" =>
        \A i \in 1..Len(test_plans) :
            \A k \in 1..Len(test_plans[i].required_peripherals) :
                test_plans[i].required_peripherals[k]
                    \in Range(boards[call.board_name].peripherals)

\* C1 witness: a plan for a known board that holds an entry with a
\* requirement and from which a declared test was left out.
C1_Witness ==
    /\ call.op = "generate_for_board"
    /\ HasBoard(call.board_name)
    /\ \E i \in 1..Len(test_plans) : test_plans[i].required_peripherals # <<>>
    /\ Len(test_plans) < Len(DeclaredEntries(call.board_name))

\* C2: for a known board generate_for_board returns the declared
\* (category, test_path) pairs, in declared order, that are compatible with
\* the board, and no others; each entry carries the board name, the category
\* and the inferred peripherals.
C2_ForBoardExactlyCompatible ==
    (call.op = "generate_for_board" /\ HasBoard(call.board_name)) =>
        test_plans =
            SelectSeq(DeclaredEntries(call.board_name),
                      LAMBDA e : Compatible(e.required_peripherals,
                                            call.board_name))

\* C2 witness: a plan with entries of two categories, one of them without a
\* requirement, from which an incompatible declared test was left out.
C2_Witness ==
    /\ call.op = "generate_for_board"
    /\ HasBoard(call.board_name)
    /\ \E i, j \in 1..Len(test_plans) :
           /\ test_plans[i].category # test_plans[j].category
           /\ test_plans[i].required_peripherals = <<>>
    /\ \E e \in Range(DeclaredEntries(call.board_name)) :
           ~Compatible(e.required_peripherals, call.board_name)

\* C3: every entry of a plan returned by any generation operation requires
\* only peripherals of the board it names (stated for the entries whose
\* board is in the registry).
C3_EveryPlanEntryCompatible ==
    call.op \in GenerationOps =>
        \A i \in 1..Len(test_plans) :
            HasBoard(test_plans[i].board) =>
                Compatible(test_plans[i].required_peripherals,
                           test_plans[i].board)

\* C4: every entry of a plan returned by any generation operation names a
\* board of the loaded registry.
C4_EveryPlanEntryKnownBoard ==
    call.op \in GenerationOps =>
        \A i \in 1..Len(test_plans) : HasBoard(test_plans[i].board)

\* the plans of the boards of a list, one after the other
PlansOver(list) == Concat([i \in 1..Len(list) |-> generate_for_board(list[i])])

\* C5 as stated: without a filter the plan is the concatenation of the
\* boards' plans in the order of the board names, with a filter in the order
\* of the filter.
C5_AllBoardsInNameOrder ==
    call.op = "generate_for_all_boards" =>
        /\ call.board_filter.none =>
               test_plans = PlansOver(SortedStrings(DOMAIN boards))
        /\ Truthy(call.board_filter) =>
               test_plans = PlansOver(call.board_filter.list)

\* C5 amended: without a filter (None or an empty list) the plan is the
\* concatenation of the boards' plans in the order in which the registry
\* enumerates the boards, which is the order of their declaration; with a
\* non-empty filter, in the order of the filter.
C5_AllBoardsInRegistryOrder ==
    call.op = "generate_for_all_boards" =>
        /\ ~Truthy(call.board_filter) => test_plans = PlansOver(board_keys)
        /\ Truthy(call.board_filter) =>
               test_plans = PlansOver(call.board_filter.list)

\* C5 witness: no filter, and two boards that both contribute entries are
\* declared in an order that is not the order of their names.
C5_Witness ==
    /\ call.op = "generate_for_all_boards"
    /\ call.board_filter.none
    /\ Len(board_keys) >= 2
    /\ StrLess(board_keys[2], board_keys[1])
    /\ \A j \in 1..2 :
           \E i \in 1..Len(test_plans) : test_plans[i].board = board_keys[j]

\* the tests and the resolved boards of a group that is found and not empty
GroupTests(group_name) == GroupGet(test_groups[group_name], "tests", <<>>)
GroupBoardsValue(group_name) ==
    GroupGet(test_groups[group_name], "boards", BoardList(<<>>))

\* C6: for a known group with a non-empty definition generate_by_group
\* returns the cross product of the resolved boards (outer) and the declared
\* tests (inner), nothing removed: |boards| x |tests| entries, each with the
\* group name as category and the inferred peripherals of its test path.
C6_GroupIsCrossProduct ==
    (call.op = "generate_by_group" /\ HasGroup(call.group_name)) =>
        LET tests == GroupTests(call.group_name)
            bs == resolve_boards(GroupBoardsValue(call.group_name))
        IN  /\ Len(test_plans) = Len(bs) * Len(tests)
            /\ \A j \in 1..Len(bs) : \A i \in 1..Len(tests) :
                   test_plans[(j - 1) * Len(tests) + i] =
                       [board |-> bs[j], test_path |-> tests[i],
                        category |-> call.group_name,
                        required_peripherals |->
                            _infer_required_peripherals(tests[i])]

\* C6 witness: a group plan over two boards and two tests that holds an
\* entry a known board is not compatible with.
C6_Witness ==
    /\ call.op = "generate_by_group"
    /\ HasGroup(call.group_name)
    /\ Len(GroupTests(call.group_name)) >= 2
    /\ Len(resolve_boards(GroupBoardsValue(call.group_name))) >= 2
    /\ \E i \in 1..Len(test_plans) :
           /\ HasBoard(test_plans[i].board)
           /\ ~Compatible(test_plans[i].required_peripherals,
                          test_plans[i].board)

\* C7: with the 'all' selector generate_by_group goes through the boards
\* get_all_boards returns, each once and in that order, so that with at
\* least one test the boards of the plan are exactly the known boards.
C7_AllSentinelIsRegistry ==
    ( /\ call.op = "generate_by_group"
      /\ HasGroup(call.group_name)
      /\ GroupBoardsValue(call.group_name) = BoardStr("all") ) =>
        LET n == Len(GroupTests(call.group_name))
        IN  /\ Len(test_plans) = Len(board_keys) * n
            /\ \A j \in 1..Len(board_keys) : \A i \in 1..n :
                   test_plans[(j - 1) * n + i].board = board_keys[j]
            /\ n >= 1 => boards_set(test_plans) = DOMAIN boards

\* C7 witness: an 'all' group with a test, on a registry of two boards
\* declared in an order that is not the order of their names.
C7_Witness ==
    /\ call.op = "generate_by_group"
    /\ HasGroup(call.group_name)
    /\ GroupBoardsValue(call.group_name) = BoardStr("all")
    /\ Len(GroupTests(call.group_name)) >= 1
    /\ Len(board_keys) >= 2
    /\ StrLess(board_keys[2], board_keys[1])
    /\ Len(test_plans) >= 2

\* C8: an unknown board gives generate_for_board an empty plan, an unknown
\* group gives generate_by_group an empty plan, and an unknown board in the
\* filter of generate_for_all_boards adds nothing while the plans of the
\* known boards of the filter are all there, in the filter's order.
C8_UnknownReferenceIsEmpty ==
    /\ (call.op = "generate_for_board" /\ ~HasBoard(call.board_name)) =>
           test_plans = <<>>
    /\ ( /\ call.op = "generate_by_group"
         /\ call.group_name \notin DOMAIN test_groups ) =>
           test_plans = <<>>
    /\ (call.op = "generate_for_all_boards" /\ Truthy(call.board_filter)) =>
           test_plans =
               PlansOver(SelectSeq(call.board_filter.list,
                                   LAMBDA b : b \in DOMAIN boards))

\* C8 witness: a filter that names an unknown board before a known one, the
\* plan holding the entries of the known board.
C8_Witness ==
    /\ call.op = "generate_for_all_boards"
    /\ Truthy(call.board_filter)
    /\ Len(call.board_filter.list) >= 2
    /\ ~HasBoard(call.board_filter.list[1])
    /\ HasBoard(call.board_filter.list[2])
    /\ test_plans # <<>>

\* the order in which the rules of the inference are applied
PeripheralOrder ==
    <<"i2c", "spi", "uart", "gpio", "can", "ethernet", "adc", "pwm">>

\* the substrings that select a peripheral
Triggers(p) ==
    IF p = "uart" THEN {"uart", "console", "shell"}
    ELSE IF p = "gpio" THEN {"gpio", "blinky"}
    ELSE IF p = "ethernet" THEN {"net", "ethernet"}
    ELSE {p}

\* the lower-case word t occurs in s when the case of letters is ignored
OccursIgnoringCase(t, s) ==
    \E i \in 1..(Len(s) - Len(t) + 1) :
        \A k \in 1..Len(t) :
            LowerChar(SubSeq(s, i + k - 1, i + k - 1)) = SubSeq(t, k, k)

\* the characters str.upper() changes to one character, and, at the same
\* position of CapitalChars, what it changes them to
SmallChars ==
    "abcdefghijklmnopqrstuvwxyzµàáâãäåæçèéêëìíîïðñòóôõöøùúûüý"
    \o "þƃƅƈƌƒƕƙơƣƥƨƭưƴƶƹƽƿǅǆǈǉǋǌǎǐǒǔǖǘǚǜǝǟǡǣǥǧǩǫǭǯǲǳǵǹǻǽǿʀʂʃʇʈʊ"
    \o "ʋʒʝʞάέήίαβγδεζηθικλμνξοπρςστυφχψωϊϋόύώϐϑϕϖϗϙϛϝϟϡϣϥϧϩϫϭϯϰ"
    \o "ϱϲϵϸϻҁҋҍҏґғҕҗҙқҝҟҡңҥҧҩҫҭүұҳҵҷҹһҽҿӂӄӆӈӊӌӎӏӑӓӕӗәӛӝӟӡӣӥӧөӫӭ"
    \o "ӯӱӳӵӷӹӻӽӿაბგდევზთიკლმნოპჟრსტუფქღყშჩცძწჭხჯჰჱჲჳჴჵჶჷჸჹჺჽჾჿᏸ"
    \o "ᏹᏺᏻᏼᏽᶎẁẃẅẇẉẋẍẏẑẓẕạảấầẩẫậắằẳẵặẹẻẽếềểễệỉịọỏốồổỗộớờởỡợụủứừử"
    \o "ữựỳỵỷỹỻỽỿᾰᾱιῐῑῠῡῥↄⓐⓑⓒⓓⓔⓕⓖⓗⓘⓙⓚⓛⓜⓝⓞⓟⓠⓡⓢⓣⓤⓥⓦⓧⓨⓩⲁⲃⲅⲇⲉⲋⲍⲏⲑⲓⲕⲗ"
    \o "ⲙⲛⲝⲟⲡⲣⲥⲧⲩⲫⲭⲯⲱⲳⲵⲷⲹⲻⲽⲿⳁⳃⳅⳇⳉⳋⳍⳏⳑⳓⳕⳗⳙⳛⳝⳟⳡⳣⳬⳮⳳꚁꚃꚅꚇꚉꚋꚍꚏꚑꚓꚕꚗꚙꚛꞁ"
    \o "ꞃꞅꞇꞌꞑꞓꞔꞗꞙꞛꞝꞟꞡꞣꞥꞧꞩꞵꞷꞹꞻꞽꞿꟁꟃꟈꟊꟑꟗꟙꟶꮀꮁꮂꮃꮄꮅꮆꮇꮈꮉꮊꮋꮌꮍꮎꮏꮐꮑꮒꮓꮔꮕꮖꮗꮘ"
    \o "ꮙꮚꮛꮜꮝꮞꮟꮠꮡꮢꮣꮤꮥꮦꮧꮨꮩꮪꮫꮬꮭꮮꮯꮰꮱꮲꮳꮴꮵꮶꮷꮸꮹꮺꮻꮼꮽꮾꮿ"

CapitalChars ==
    "ABCDEFGHIJKLMNOPQRSTUVWXYZΜÀÁÂÃÄÅÆÇÈÉÊËÌÍÎÏÐÑÒÓÔÕÖØÙÚÛÜÝ"
    \o "ÞƂƄƇƋƑǶƘƠƢƤƧƬƯƳƵƸƼǷǄǄǇǇǊǊǍǏǑǓǕǗǙǛƎǞǠǢǤǦǨǪǬǮǱǱǴǸǺǼǾƦꟅƩꞱƮƱ"
    \o "ƲƷꞲꞰΆΈΉΊΑΒΓΔΕΖΗΘΙΚΛΜΝΞΟΠΡΣΣΤΥΦΧΨΩΪΫΌΎΏΒΘΦΠϏϘϚϜϞϠϢϤϦϨϪϬϮΚ"
    \o "ΡϹΕϷϺҀҊҌҎҐҒҔҖҘҚҜҞҠҢҤҦҨҪҬҮҰҲҴҶҸҺҼҾӁӃӅӇӉӋӍӀӐӒӔӖӘӚӜӞӠӢӤӦӨӪӬ"
    \o "ӮӰӲӴӶӸӺӼӾᲐᲑᲒᲓᲔᲕᲖᲗᲘᲙᲚᲛᲜᲝᲞᲟᲠᲡᲢᲣᲤᲥᲦᲧᲨᲩᲪᲫᲬᲭᲮᲯᲰᲱᲲᲳᲴᲵᲶᲷᲸᲹᲺᲽᲾᲿᏰ"
    \o "ᏱᏲᏳᏴᏵꟆẀẂẄẆẈẊẌẎẐẒẔẠẢẤẦẨẪẬẮẰẲẴẶẸẺẼẾỀỂỄỆỈỊỌỎỐỒỔỖỘỚỜỞỠỢỤỦỨỪỬ"
    \o "ỮỰỲỴỶỸỺỼỾᾸᾹΙῘῙῨῩῬↃⒶⒷⒸⒹⒺⒻⒼⒽⒾⒿⓀⓁⓂⓃⓄⓅⓆⓇⓈⓉⓊⓋⓌⓍⓎⓏⲀⲂⲄⲆⲈⲊⲌⲎⲐⲒⲔⲖ"
    \o "ⲘⲚⲜⲞⲠⲢⲤⲦⲨⲪⲬⲮⲰⲲⲴⲶⲸⲺⲼⲾⳀⳂⳄⳆⳈⳊⳌⳎⳐⳒⳔⳖⳘⳚⳜⳞⳠⳢⳫⳭⳲꚀꚂꚄꚆꚈꚊꚌꚎꚐꚒꚔꚖꚘꚚꞀ"
    \o "ꞂꞄꞆꞋꞐꞒꟄꞖꞘꞚꞜꞞꞠꞢꞤꞦꞨꞴꞶꞸꞺꞼꞾꟀꟂꟇꟉꟐꟖꟘꟵᎰᎱᎲᎳᎴᎵᎶᎷᎸᎹᎺᎻᎼᎽᎾᎿᏀᏁᏂᏃᏄᏅᏆᏇᏈ"
    \o "ᏉᏊᏋᏌᏍᏎᏏᏐᏑᏒᏓᏔᏕᏖᏗᏘᏙᏚᏛᏜᏝᏞᏟᏠᏡᏢᏣᏤᏥᏦᏧᏨᏩᏪᏫᏬᏭᏮᏯ"

\* the characters str.upper() changes to two characters, and, at the same
\* position of SpecialCapitals, what it changes them to
SpecialChars == "ßẚᾲᾳᾴᾼῂῃῄῌῲῳῴῼ"

SpecialCapitals ==
    <<"SS", "Aʾ", "ᾺΙ", "ΑΙ", "ΆΙ", "ΑΙ", "ῊΙ", "ΗΙ", "ΉΙ", "ΗΙ", "ῺΙ", "ΩΙ", "ΏΙ", "ΩΙ">>

\* str.upper() on one character. Left as they are, are the 95 characters
\* whose capital a string cannot hold (U+00FF, U+0180, U+019A, U+019E,
\* U+01F0, U+0289, U+028C, U+0390, U+03B0, U+03F3, U+0580-U+0587,
\* U+1C80-U+1C88, U+1E96-U+1E99, U+1E9B, U+1F80-U+1FAF, U+1FB6, U+1FB7,
\* U+1FC6, U+1FC7, U+1FD2, U+1FD3, U+1FD6, U+1FD7, U+1FE2-U+1FE4, U+1FE6,
\* U+1FE7, U+1FF6, U+1FF7); no string of the model contains one.
UpperMap ==
    [c \in {SubSeq(SmallChars, i, i) : i \in 1..Len(SmallChars)}
           \cup {SubSeq(SpecialChars, i, i) : i \in 1..Len(SpecialChars)} |->
        IF \E j \in 1..Len(SpecialChars) : SubSeq(SpecialChars, j, j) = c
        THEN SpecialCapitals[CHOOSE j \in 1..Len(SpecialChars) :
                                 SubSeq(SpecialChars, j, j) = c]
        ELSE LET i == CHOOSE j \in 1..Len(SmallChars) :
                          SubSeq(SmallChars, j, j) = c
             IN  SubSeq(CapitalChars, i, i)]

UpperChar(c) == IF c \in DOMAIN UpperMap THEN UpperMap[c] ELSE c

\* str.upper(): the path written in capitals
RECURSIVE upper(_)
upper(s) ==
    IF Len(s) = 0 THEN ""
    ELSE UpperChar(SubSeq(s, 1, 1)) \o upper(SubSeq(s, 2, Len(s)))

\* s with every small letter of a to z replaced by its capital, every other
\* character as it is
RECURSIVE AsciiUpperCased(_)
AsciiUpperCased(s) ==
    IF Len(s) = 0 THEN ""
    ELSE LET c == SubSeq(s, 1, 1)
         IN  (IF \E i \in 1..26 : SubSeq(SmallChars, i, i) = c
              THEN UpperChar(c) ELSE c)
                 \o AsciiUpperCased(SubSeq(s, 2, Len(s)))

\* the string of a text all of whose characters a string can hold
RECURSIVE StringOf(_)
StringOf(text) ==
    IF text = <<>> THEN "" ELSE Head(text) \o StringOf(Tail(text))

\* the lower-cased path as a string, when a string can hold it; else the
\* path itself
LowerCased(s) ==
    IF \A i \in 1..Len(s) : Len(lower(s)[i]) = 1 THEN StringOf(lower(s))
    ELSE s

\* the peripherals of the fixed order whose rule has a trigger in the path,
\* the case of letters ignored
RuleSubsequence(test_path) ==
    SelectSeq(PeripheralOrder,
              LAMBDA p : \E t \in Triggers(p) : OccursIgnoringCase(t, test_path))

\* C9 as stated: _infer_required_peripherals returns the peripherals of the
\* fixed order whose rule has a trigger in the path, letter case ignored:
\* nothing when no trigger occurs, each peripheral at most once, and the
\* same list for the path written in capitals. It fails for a path with a
\* sharp s: "ßpi" gives no peripheral, its capitals "SSPI" give spi.
C9_InferIgnoresLetterCase ==
    call.op = "_infer_required_peripherals" =>
        /\ peripherals = RuleSubsequence(call.test_path)
        /\ \A i, j \in 1..Len(peripherals) :
               i # j => peripherals[i] # peripherals[j]
        /\ peripherals = _infer_required_peripherals(upper(call.test_path))

\* C9: _infer_required_peripherals returns the peripherals of the fixed
\* order whose rule has a trigger in the lower-cased path: nothing when no
\* trigger occurs, each peripheral at most once, and the same list for the
\* lower-cased path and for the path with its letters a to z written in
\* capitals.
C9_InferIsRuleSubsequence ==
    call.op = "_infer_required_peripherals" =>
        /\ peripherals = RuleSubsequence(call.test_path)
        /\ \A i, j \in 1..Len(peripherals) :
               i # j => peripherals[i] # peripherals[j]
        /\ peripherals = _infer_required_peripherals(LowerCased(call.test_path))
        /\ peripherals =
               _infer_required_peripherals(AsciiUpperCased(call.test_path))

\* C9 witness: a path with a capital letter in which both triggers of the
\* gpio rule occur and for which the result is gpio, once.
C9_Witness ==
    /\ call.op = "_infer_required_peripherals"
    /\ OccursIgnoringCase("gpio", call.test_path)
    /\ OccursIgnoringCase("blinky", call.test_path)
    /\ ~StrIn("blinky", Chars(call.test_path))
    /\ peripherals = <<"gpio">>

\* the number of different elements of a sequence, by first occurrences
DistinctCount(seq) ==
    Cardinality({i \in 1..Len(seq) : \A j \in 1..(i - 1) : seq[j] # seq[i]})

\* the counts a summary must hold for a plan
SummaryCountsOf(total, n_boards, n_tests, plans) ==
    /\ total = Len(plans)
    /\ n_boards = DistinctCount([i \in 1..Len(plans) |-> plans[i].board])
    /\ n_tests = DistinctCount([i \in 1..Len(plans) |-> plans[i].test_path])
    /\ n_boards <= total
    /\ n_tests <= total
    /\ plans = <<>> => (total = 0 /\ n_boards = 0 /\ n_tests = 0)

\* C10: the summary of a plan counts its entries (duplicates included), its
\* different board names and its different test paths; the two latter are at
\* most the former, and all three are 0 for the empty plan.
C10_SummaryCounts ==
    /\ call.op = "export_to_json" =>
           SummaryCountsOf(data[1].summary.total_tests, data[1].summary.boards,
                           data[1].summary.unique_tests, test_plans)
    /\ call.op = "print_summary" =>
           SummaryCountsOf(printed[1].total, printed[1].boards,
                           printed[1].tests, test_plans)

\* C10 witness: an exported plan over two boards in which a board and a test
\* path occur more than once.
C10_Witness ==
    /\ call.op = "export_to_json"
    /\ data[1].summary.boards = 2
    /\ data[1].summary.boards < data[1].summary.unique_tests
    /\ data[1].summary.unique_tests < data[1].summary.total_tests

\* the tuples read back from the test_plans array of an exported document
ReadTestPlans(doc) ==
    [i \in 1..Len(doc.test_plans) |->
        <<doc.test_plans[i].board, doc.test_plans[i].test_path,
          doc.test_plans[i].category, doc.test_plans[i].required_peripherals>>]

\* C11: the test_plans array of the exported document has the length of the
\* plan and its i-th element carries the board, test path, category and
\* required peripherals of the plan's i-th entry: nothing dropped, nothing
\* reordered.
C11_ExportKeepsEntries ==
    call.op = "export_to_json" =>
        /\ Len(data[1].test_plans) = Len(test_plans)
        /\ ReadTestPlans(data[1]) =
               [i \in 1..Len(test_plans) |->
                   <<test_plans[i].board, test_plans[i].test_path,
                     test_plans[i].category,
                     test_plans[i].required_peripherals>>]

\* C11 witness: an exported plan in which an entry occurs twice and whose
\* first and last entries differ.
C11_Witness ==
    /\ call.op = "export_to_json"
    /\ Len(test_plans) >= 3
    /\ \E i, j \in 1..Len(test_plans) : i < j /\ test_plans[i] = test_plans[j]
    /\ test_plans[1] # test_plans[Len(test_plans)]
    /\ Len(data[1].test_plans) = Len(test_plans)

\* C12: a generation call leaves the board registry and the test groups as
\* they were, and a generation call repeated with the same arguments returns
\* an equal plan.
C12_GenerationKeepsConfig ==
    /\ [][call'.op \in GenerationOps => config' = config]_vars
    /\ [][(call.op \in GenerationOps /\ call'.op = call.op /\ call' = call)
              => test_plans' = test_plans]_vars

\* C12 witness: a group generation that resolved the 'all' selector over
\* two boards has returned a plan, the group still holding 'all'.
C12_Witness ==
    /\ call.op = "generate_by_group"
    /\ HasGroup(call.group_name)
    /\ GroupBoardsValue(call.group_name) = BoardStr("all")
    /\ Len(board_keys) >= 2
    /\ test_plans # <<>>

\* a board passes the restrictions that apply to a test case: it is a
\* discovered board, it is on the platform list of the test case when that
\* list is not empty, and it is in the user's filter when that is not empty
PassesRestrictions(b, tc) ==
    /\ b \in Range(gd32_boards)
    /\ (Len(tc.platforms) > 0 => b \in Range(tc.platforms))
    /\ (Truthy(args.platforms) => b \in Range(args.platforms.list))

\* every name a board may go by in the inputs
AnyBoardNames ==
    GD32BoardNames \cup UNION {Range(pl) : pl \in PlatformLists}
        \cup UNION {Range(f.list) : f \in PlatformFilters}

\* C17: for every test case, filter_boards_for_testcase returns exactly the
\* boards that are discovered GD32 boards, are on the test case's platform
\* list when it has one, and are in the user's filter when there is one;
\* and the build matrix holds a task (board, testcase) exactly for them.
C17_MatrixIsExactlyPassingBoards ==
    pc # "start" =>
        \A i \in 1..Len(testcases) :
            /\ Range(filter_boards_for_testcase(testcases[i], gd32_boards,
                                                args.platforms))
                   = {b \in AnyBoardNames : PassesRestrictions(b, testcases[i])}
            /\ \A b \in AnyBoardNames :
                   (\E k \in 1..Len(build_tasks) :
                        /\ build_tasks[k].board = b
                        /\ build_tasks[k].tc = testcases[i])
                       <=> PassesRestrictions(b, testcases[i])

C17_Witness ==
    /\ pc = "execute"
    /\ Truthy(args.platforms)
    /\ \E i \in 1..Len(testcases) :
           /\ Len(testcases[i].platforms) > 0
           /\ \E k \in 1..Len(build_tasks) : build_tasks[k].tc = testcases[i]
           /\ \E b \in Range(testcases[i].platforms) \cap Range(gd32_boards) :
                  /\ b \notin Range(args.platforms.list)
                  /\ \A k \in 1..Len(build_tasks) :
                         ~(build_tasks[k].board = b
                             /\ build_tasks[k].tc = testcases[i])
    /\ \E i \in 1..Len(testcases) :
           /\ Len(testcases[i].platforms) = 0
           /\ \E k \in 1..Len(build_tasks) : build_tasks[k].tc = testcases[i]

\* C15: the log_output of every BuildResult west_build returns is at most
\* MAX_LOG_LENGTH characters long, whatever the outcome of the build (exit
\* status, timeout or exception), and when the process output was longer it
\* is the last MAX_LOG_LENGTH characters of that output.
C15_LogOutputBounded ==
    pc = "returned" =>
        /\ Len(results[1].log_output) <= MAX_LOG_LENGTH
        /\ (proc.kind = "exit" /\ Len(proc.output) > MAX_LOG_LENGTH) =>
               results[1].log_output =
                   SubSeq(proc.output, Len(proc.output) - MAX_LOG_LENGTH + 1,
                          Len(proc.output))

\* what does hold: the bound and the tail for a process that ended, and the
\* fixed text for a timeout
C15_ExitedLogOutputBounded ==
    pc = "returned" =>
        /\ proc.kind = "exit" =>
               /\ Len(results[1].log_output) <= MAX_LOG_LENGTH
               /\ Len(proc.output) <= MAX_LOG_LENGTH =>
                      results[1].log_output = proc.output
               /\ Len(proc.output) > MAX_LOG_LENGTH =>
                      results[1].log_output =
                          SubSeq(proc.output,
                                 Len(proc.output) - MAX_LOG_LENGTH + 1,
                                 Len(proc.output))
        /\ proc.kind = "timeout" => results[1].log_output = "Build timed out"
        /\ proc.kind = "exception" => results[1].log_output = proc.error

\* the run is over by main returning after the builds
BuildsExecuted == pc = "done" /\ Len(build_tasks) > 0

\* C13: once builds were executed the exit code is 0 if and only if every
\* result is a success and 1 otherwise; and a failed unit (non-zero exit,
\* timeout or exception) does not abort the run: the run goes on to its end,
\* where every task of the matrix has its result and the exit code is 1.
C13_ExitCodeIffAllSucceeded ==
    /\ [](BuildsExecuted =>
             /\ exit_code \in {<<0>>, <<1>>}
             /\ exit_code = <<0>> <=>
                    \A i \in 1..Len(results) : results[i].success
             /\ Len(results) = Len(build_tasks))
    /\ [](exit_code # <<>> => pc \in {"done", "crashed"})
    /\ (\E i \in 1..Len(results) : ~results[i].success)
           ~> (BuildsExecuted /\ exit_code = <<1>>)

C13_Witness ==
    /\ BuildsExecuted
    /\ args.jobs > 1
    /\ exit_code = <<1>>
    /\ Len(results) = 3
    /\ results[1].message = "Build timeout after 600s"
    /\ results[2].message
           = "Build error: [Errno 2] No such file or directory: 'west'"
    /\ results[3].success

\* the (board, testcase name) of a task and of a result
TaskKey(t) == <<t.board, t.tc.name>>
ResultKey(r) == <<r.board, r.testcase>>

\* how many items of seq have the key k
CountKey(seq, Key(_), k) == Cardinality({i \in 1..Len(seq) : Key(seq[i]) = k})

TaskKeys == {TaskKey(build_tasks[i]) : i \in 1..Len(build_tasks)}

C14_OncePerTask ==
    /\ \A i \in 1..Len(attempts) : attempts[i] <= 1
    /\ \A i \in 1..Len(results) : ResultKey(results[i]) \in TaskKeys
    /\ \A k \in TaskKeys :
           CountKey(results, ResultKey, k) <= CountKey(build_tasks, TaskKey, k)
    /\ (pc \in {"report", "done"} /\ Len(build_tasks) > 0) =>
           /\ \A i \in 1..Len(attempts) : attempts[i] = 1
           /\ Len(results) = Len(build_tasks)
           /\ \A k \in TaskKeys :
                  CountKey(results, ResultKey, k)
                      = CountKey(build_tasks, TaskKey, k)
    /\ args.jobs = 1 =>
           \A i \in 1..Len(results) :
               ResultKey(results[i]) = TaskKey(build_tasks[i])

\* C14: for every number of jobs (at least one) and every order in which the
\* workers finish, west_build is called at most once per task at any time and
\* exactly once by the end; the run ends, and then the multiset of
\* (board, testcase) of the results is that of the tasks; with jobs == 1 the
\* results are in the order of the build matrix.
C14_EachTaskOnce ==
    /\ []C14_OncePerTask
    /\ (pc = "start" /\ args.jobs >= 1) ~> pc = "done"

C14_Witness ==
    /\ pc = "done"
    /\ args.jobs = 2
    /\ Len(build_tasks) = 3
    /\ Len(results) = 3
    /\ ResultKey(results[1]) = TaskKey(build_tasks[3])
    /\ ResultKey(results[3]) = TaskKey(build_tasks[1])
    /\ results[2].message = "Build timeout after 600s"
    /\ \A i \in 1..3 : attempts[i] = 1

\* the build directory of the i-th task
TaskBuildDir(i) ==
    build_dir_of(WorkDir, build_tasks[i].board, build_tasks[i].tc)

\* C16: two distinct tasks (board, testcase) of a build matrix get different
\* build directories, and no two workers build into the same directory at
\* the same time.
C16_BuildDirsUnique ==
    /\ \A i, j \in 1..Len(build_tasks) :
           TaskKey(build_tasks[i]) # TaskKey(build_tasks[j])
               => TaskBuildDir(i) # TaskBuildDir(j)
    /\ \A i, j \in running : i # j => TaskBuildDir(i) # TaskBuildDir(j)

\* what does hold: tasks whose boards differ, or whose test names differ
\* after '/' and '.' are replaced by '_', have different directories here
C16_DirsDifferUnlessSafeNamesAgree ==
    \A i, j \in 1..Len(build_tasks) :
        TaskBuildDir(i) = TaskBuildDir(j) =>
            /\ build_tasks[i].board = build_tasks[j].board
            /\ replace(replace(build_tasks[i].tc.name, "/", "_"), ".", "_")
                   = replace(replace(build_tasks[j].tc.name, "/", "_"), ".", "_")

=============================================================================
